---- MODULE Spec2Model ----
(***************************************************************************)
(* A model of the sleeng wallet manager (github.com/Ghvstcode/sleeng):     *)
(*                                                                         *)
(*  - the key store of pkg/wallet/wallet_key.go: one JSON file holding the *)
(*    wallets and the active alias, read afresh and rewritten as a whole   *)
(*    by every operation;                                                  *)
(*  - the transaction-history aggregator of pkg/wallet/wallet_trns.go: one *)
(*    goroutine per signature under a weighted semaphore and an errgroup.  *)
(*                                                                         *)
(* Strings are sequences of one-character strings wherever the code looks  *)
(* inside them (the key text); aliases and addresses, which the code only  *)
(* compares and copies, are TLA+ strings and are taken to be valid UTF-8.  *)
(* The file is a sequence of JSON tokens, so that a write that stops early *)
(* leaves a prefix of the serialization behind.                            *)
(***************************************************************************)
EXTENDS Integers, Sequences, FiniteSets, Bags, TLC

VARIABLES
    file,       \* the key file: [exists, bytes]
    res,        \* the last key-store call: its name, inputs, result and the file before it
    publicKeyStr, \* the address fetchTransactions is called with
    sigs,       \* the ledger: the transactions of the signatures of the address
    pc,         \* fetchTransactions: where the calling goroutine is
    idx,        \* fetchTransactions: index of the next signature of the range loop
    task,       \* per signature: the state of its goroutine
    sem,        \* semaphore.Weighted: [size, cur], its slots and how many are held
    mu,         \* transactionsMutex: 0 when free, else the goroutine holding it
    transactions, \* the shared result slice
    ctx,        \* the errgroup's context: "live", "canceled" or "deadline"
    egErr,      \* errgroup: the first error recorded
    ret,        \* what fetchTransactions returned
    hist        \* the calls issued in the run, a bag, for the properties

storeVars == <<file, res>>
aggVars == <<publicKeyStr, sigs, pc, idx, task, sem, mu, transactions, ctx, egErr, ret, hist>>
vars == <<file, res, publicKeyStr, sigs, pc, idx, task, sem, mu, transactions, ctx, egErr, ret, hist>>

-----------------------------------------------------------------------------
(* Bounds of the model.                                                    *)

MaxAliases == 3     \* how many aliases of AliasPool the callers use
KeyLen == 2         \* bytes of a private key (64 in an ed25519 key)
MaxSigs == 2        \* signatures the ledger returns for the address
CutAt == 3          \* tokens a write that is cut short leaves in the file
MaxSlots == 2       \* the semaphore has 1 or MaxSlots slots (maxConcurrentRequests, 50, scaled down)
MaxInstructions == 3  \* instructions of a transaction handed to the decoder on its own
MaxEvents == 3        \* events of a history handed to the transactions command

-----------------------------------------------------------------------------
(* Text.                                                                   *)

Digits == <<"0", "1", "2", "3", "4", "5", "6", "7", "8", "9">>

Base58Alphabet ==
    <<"1", "2", "3", "4", "5", "6", "7", "8", "9", "A", "B", "C", "D", "E", "F",
      "G", "H", "J", "K", "L", "M", "N", "P", "Q", "R", "S", "T", "U", "V", "W",
      "X", "Y", "Z", "a", "b", "c", "d", "e", "f", "g", "h", "i", "j", "k", "m",
      "n", "o", "p", "q", "r", "s", "t", "u", "v", "w", "x", "y", "z">>

\* strconv.Itoa for n >= 0.
RECURSIVE Itoa(_)
Itoa(n) == IF n < 10 THEN <<Digits[n + 1]>>
           ELSE Itoa(n \div 10) \o <<Digits[(n % 10) + 1]>>

IsDigit(c) == \E d \in 1..10 : Digits[d] = c
DigitVal(c) == (CHOOSE d \in 1..10 : Digits[d] = c) - 1

RECURSIVE DigitsVal(_, _)
DigitsVal(s, acc) == IF s = <<>> THEN acc
                     ELSE DigitsVal(Tail(s), acc * 10 + DigitVal(Head(s)))

\* strconv.Atoi: an optional sign, then one or more decimal digits.
Atoi(s) ==
    LET signed == s # <<>> /\ Head(s) \in {"+", "-"}
        body == IF signed THEN Tail(s) ELSE s
    IN  IF body = <<>> \/ \E i \in 1..Len(body) : ~IsDigit(body[i])
        THEN [err |-> "strconv.Atoi: invalid syntax", num |-> 0]
        ELSE [err |-> "nil",
              num |-> IF signed /\ Head(s) = "-" THEN 0 - DigitsVal(body, 0)
                      ELSE DigitsVal(body, 0)]

TrimPrefix(s, c) == IF s # <<>> /\ Head(s) = c THEN Tail(s) ELSE s
TrimSuffix(s, c) == IF s # <<>> /\ s[Len(s)] = c THEN SubSeq(s, 1, Len(s) - 1) ELSE s

\* strings.Split(s, sep): always at least one part, the last one possibly empty.
RECURSIVE Split(_, _)
Split(s, sep) ==
    IF \A i \in 1..Len(s) : s[i] # sep THEN <<s>>
    ELSE LET i == CHOOSE k \in 1..Len(s) : s[k] = sep /\ \A j \in 1..(k - 1) : s[j] # sep
         IN  <<SubSeq(s, 1, i - 1)>> \o Split(SubSeq(s, i + 1, Len(s)), sep)

RECURSIVE Join(_, _)
Join(parts, sep) ==
    IF parts = <<>> THEN <<>>
    ELSE IF Len(parts) = 1 THEN parts[1]
    ELSE parts[1] \o <<sep>> \o Join(Tail(parts), sep)

\* An encoder that writes the comma after every number, the last one too.
getSolCLIComptKey_TrailingComma(key) ==
    <<"[">> \o Join([i \in 1..Len(key) |-> Itoa(key[i]) \o <<",">>], "") \o <<"]">>

\* getSolCLIComptKey: "[" n1 "," n2 ... "]".
getSolCLIComptKey(key) ==
    <<"[">> \o Join([i \in 1..Len(key) |-> Itoa(key[i])], ",") \o <<"]">>

\* getPrivateKeyFromSolCLICompStr: the brackets trimmed, split at the commas, each
\* part through Atoi and then narrowed to a byte.
getPrivateKeyFromSolCLICompStr(strKey) ==
    LET strArr == Split(TrimSuffix(TrimPrefix(strKey, "["), "]"), ",")
        nums == [i \in 1..Len(strArr) |-> Atoi(strArr[i])]
    IN  IF \E i \in 1..Len(nums) : nums[i].err # "nil"
        THEN [err |-> "strconv.Atoi: invalid syntax", key |-> <<>>]
        ELSE [err |-> "nil", key |-> [i \in 1..Len(nums) |-> nums[i].num % 256]]

RECURSIVE BytesVal(_, _)
BytesVal(b, acc) == IF b = <<>> THEN acc ELSE BytesVal(Tail(b), acc * 256 + Head(b))

RECURSIVE Base58Digits(_)
Base58Digits(n) == IF n = 0 THEN <<>>
                   ELSE Base58Digits(n \div 58) \o <<Base58Alphabet[(n % 58) + 1]>>

RECURSIVE LeadingZeros(_)
LeadingZeros(b) == IF b = <<>> \/ Head(b) # 0 THEN 0 ELSE 1 + LeadingZeros(Tail(b))

\* base58.Encode: one "1" per leading zero byte, then the number in base 58.
base58Encode(b) ==
    [i \in 1..LeadingZeros(b) |-> "1"] \o Base58Digits(BytesVal(b, 0))

-----------------------------------------------------------------------------
(* The key store: data and its JSON form.                                  *)

\* Aliases in the byte order in which encoding/json writes the keys of a map.
AliasPool == <<"", "a", "b", "c", "d">>
Aliases == {AliasPool[i] : i \in 1..MaxAliases}

\* An alias of two words, as the prompt for an alias accepts it, and the byte order
\* of the keys with it: a space sorts before every letter.
SpacedAlias == "a b"
KeyOrder == <<"", "a", SpacedAlias, "b", "c", "d">>

\* The key pairs the callers hand to WriteKeyToFile: a private key and its address.
KeyOf(seed) == [j \in 1..KeyLen |-> (seed + j) % 256]
NewWallets == {[key |-> KeyOf(7), address |-> "PUBKEYA"],
               [key |-> KeyOf(254), address |-> "PUBKEYB"]}

\* type Wallet: PrivateKey (the key text), Balance, PublicKey.
Wallet(privateKey, balance, publicKey) ==
    [PrivateKey |-> privateKey, Balance |-> balance, PublicKey |-> publicKey]

NoWallets == [a \in {} |-> Wallet(<<>>, 0, "")]

\* type WalletData. A nil map (var data WalletData, or JSON null) is WalletsNil.
WalletData(activeAlias, wallets, isNil) ==
    [ActiveAlias |-> activeAlias, Wallets |-> wallets, WalletsNil |-> isNil]

ZeroWalletData == WalletData("", NoWallets, TRUE)

\* One JSON token of the file. kf is the name of the member that holds the key.
Tok(t) == [t |-> t, a |-> "", kf |-> "", key |-> <<>>, bal |-> 0, pub |-> ""]
ActiveTok(alias) == [Tok("activeAlias") EXCEPT !.a = alias]
EntryTok(alias, kf, w) ==
    [t |-> "entry", a |-> alias, kf |-> kf, key |-> w.PrivateKey,
     bal |-> w.Balance, pub |-> w.PublicKey]

\* The json tag of Wallet.PrivateKey.
KeyField == "key"

\* A Marshal that names the key's member privateKey, which the Wallet that reads
\* it back does not match.
Marshal_PrivateKeyMember(data) ==
    LET present == SelectSeq(KeyOrder, LAMBDA a : a \in DOMAIN data.Wallets)
        entries == [i \in 1..Len(present) |->
                      EntryTok(present[i], "privateKey", data.Wallets[present[i]])]
    IN  <<Tok("{"), ActiveTok(data.ActiveAlias)>>
        \o (IF data.WalletsNil THEN <<Tok("wallets:null")>>
            ELSE <<Tok("wallets:{")>> \o entries \o <<Tok("}w")>>)
        \o <<Tok("}")>>

\* json.Marshal(WalletData): the members in the order of the struct, the map with
\* its keys sorted.
Marshal(data) ==
    LET present == SelectSeq(KeyOrder, LAMBDA a : a \in DOMAIN data.Wallets)
        entries == [i \in 1..Len(present) |->
                      EntryTok(present[i], KeyField, data.Wallets[present[i]])]
    IN  <<Tok("{"), ActiveTok(data.ActiveAlias)>>
        \o (IF data.WalletsNil THEN <<Tok("wallets:null")>>
            ELSE <<Tok("wallets:{")>> \o entries \o <<Tok("}w")>>)
        \o <<Tok("}")>>

\* U+212A KELVIN SIGN, spelled as the JSON text escapes it: member names are
\* kept in ASCII, a rune outside it as its \u escape.
KelvinSign == "\\u212a"

\* The runes that Unicode simple folding takes to the given letter of the tag: its
\* two cases, and for k the Kelvin sign as well.
FoldsTo(letter) ==
    CASE letter = "k" -> {"k", "K", KelvinSign}
      [] letter = "e" -> {"e", "E"}
      [] letter = "y" -> {"y", "Y"}

\* encoding/json matches member names to tags rune by rune under simple folding.
MatchesKeyField(kf) ==
    kf \in {k \o e \o y : k \in FoldsTo("k"), e \in FoldsTo("e"), y \in FoldsTo("y")}

EntryWallet(tk) ==
    Wallet(IF MatchesKeyField(tk.kf) THEN tk.key ELSE <<>>, tk.bal, tk.pub)

SyntaxError == [err |-> "unexpected end of JSON input", data |-> ZeroWalletData]

\* json.Unmarshal into a WalletData: members in any order, a missing member keeps
\* the zero value, null makes the map nil, anything cut short is a syntax error.
RECURSIVE ParseMembers(_, _, _)
RECURSIVE ParseEntries(_, _, _)
ParseMembers(b, i, d) ==
    IF i > Len(b) THEN SyntaxError
    ELSE CASE b[i].t = "}" ->
                 IF i = Len(b) THEN [err |-> "nil", data |-> d] ELSE SyntaxError
           [] b[i].t = "activeAlias" ->
                 ParseMembers(b, i + 1, [d EXCEPT !.ActiveAlias = b[i].a])
           [] b[i].t = "wallets:null" ->
                 ParseMembers(b, i + 1, [d EXCEPT !.Wallets = NoWallets, !.WalletsNil = TRUE])
           [] b[i].t = "wallets:{" ->
                 ParseEntries(b, i + 1, [d EXCEPT !.WalletsNil = FALSE])
           [] OTHER -> SyntaxError
ParseEntries(b, i, d) ==
    IF i > Len(b) THEN SyntaxError
    ELSE CASE b[i].t = "entry" ->
                 ParseEntries(b, i + 1,
                     [d EXCEPT !.Wallets =
                         [a \in DOMAIN d.Wallets \cup {b[i].a} |->
                             IF a = b[i].a THEN EntryWallet(b[i]) ELSE d.Wallets[a]]])
           [] b[i].t = "}w" -> ParseMembers(b, i + 1, d)
           [] OTHER -> SyntaxError

Unmarshal(b) ==
    IF b = <<>> \/ b[1].t # "{" THEN SyntaxError
    ELSE ParseMembers(b, 2, ZeroWalletData)

-----------------------------------------------------------------------------
(* The key store: the file.                                                *)

NoFile == [exists |-> FALSE, bytes |-> <<>>]
FileOf(b) == [exists |-> TRUE, bytes |-> b]

\* IOUtilFileReader.ReadFile: fault is an I/O failure other than a missing file.
ReadFile(f, fault) ==
    IF fault THEN [err |-> "io", bytes |-> <<>>]
    ELSE IF ~f.exists THEN [err |-> "ErrNotExist", bytes |-> <<>>]
    ELSE [err |-> "nil", bytes |-> f.bytes]

\* IOUtilFileWriter.WriteFile, that is ioutil.WriteFile: the file is opened with
\* O_CREATE|O_TRUNC and the data then written into it. n is how far the write got:
\* -1 when the open failed, Len(data) when all of it was written.
WriteFile(f, data, n) ==
    IF n < 0 THEN [err |-> "error writing to file", file |-> f]
    ELSE IF n < Len(data)
    THEN [err |-> "error writing to file", file |-> FileOf(SubSeq(data, 1, n))]
    ELSE [err |-> "nil", file |-> FileOf(data)]

\* readWalletData on a key store that keeps the store the call before it loaded.
readWalletData_Resident(f, fault) ==
    LET g == IF res.op # "none" /\ res.before.exists THEN res.before ELSE f
        r == ReadFile(g, fault)
    IN  IF r.err # "nil"
        THEN [err |-> "error reading file", data |-> ZeroWalletData]
        ELSE LET u == Unmarshal(r.bytes)
             IN  IF u.err # "nil"
                 THEN [err |-> "error unmarshaling JSON", data |-> ZeroWalletData]
                 ELSE u

\* readWalletData that drops the error of json.Unmarshal.
readWalletData_IgnoreDecodeError(f, fault) ==
    LET r == ReadFile(f, fault)
    IN  IF r.err # "nil"
        THEN [err |-> "error reading file", data |-> ZeroWalletData]
        ELSE [err |-> "nil", data |-> Unmarshal(r.bytes).data]

\* KeyOps.readWalletData
readWalletData(f, fault) ==
    LET r == ReadFile(f, fault)
    IN  IF r.err # "nil"
        THEN [err |-> "error reading file", data |-> ZeroWalletData]
        ELSE LET u == Unmarshal(r.bytes)
             IN  IF u.err # "nil"
                 THEN [err |-> "error unmarshaling JSON", data |-> ZeroWalletData]
                 ELSE u

\* KeyOps.IsKeyFilePresent
IsKeyFilePresent(f, fault) ==
    LET r == ReadFile(f, fault)
    IN  IF r.err = "ErrNotExist" THEN [err |-> "nil", present |-> FALSE]
        ELSE IF r.err # "nil" THEN [err |-> "error accessing file", present |-> FALSE]
        ELSE [err |-> "nil", present |-> TRUE]

NoVal == <<>>
\* What a call did: clean is TRUE when none of its reads and writes was made to fail.
Result(op, alias, wallet, clean, err, val, before) ==
    [op |-> op, alias |-> alias, wallet |-> wallet, clean |-> clean, err |-> err,
     val |-> val, before |-> before]
NoWallet == [key |-> <<>>, address |-> ""]

\* KeyOps.GetCurrentPrivateKey
GetCurrentPrivateKey(f, fault) ==
    LET r == readWalletData(f, fault)
    IN  IF r.err # "nil" THEN [err |-> r.err, val |-> NoVal]
        ELSE IF r.data.ActiveAlias \notin DOMAIN r.data.Wallets
        THEN [err |-> "ErrActiveWalletNotFound", val |-> NoVal]
        ELSE LET k == getPrivateKeyFromSolCLICompStr(
                          r.data.Wallets[r.data.ActiveAlias].PrivateKey)
             IN  IF k.err # "nil" THEN [err |-> k.err, val |-> NoVal]
                 ELSE [err |-> "nil", val |-> base58Encode(k.key)]

\* KeyOps.GetCurrentPublicKey
GetCurrentPublicKey(f, fault) ==
    LET r == readWalletData(f, fault)
    IN  IF r.err # "nil" THEN [err |-> r.err, val |-> ""]
        ELSE IF r.data.ActiveAlias \notin DOMAIN r.data.Wallets
        THEN [err |-> "ErrActiveWalletNotFound", val |-> ""]
        ELSE [err |-> "nil", val |-> r.data.Wallets[r.data.ActiveAlias].PublicKey]

\* KeyOps.GetPrivateKeyByAlias
GetPrivateKeyByAlias(f, fault, alias) ==
    LET r == readWalletData(f, fault)
    IN  IF r.err # "nil" THEN [err |-> r.err, val |-> NoVal]
        ELSE IF alias \notin DOMAIN r.data.Wallets
        THEN [err |-> "no wallet found for alias", val |-> NoVal]
        ELSE [err |-> "nil", val |-> r.data.Wallets[alias].PrivateKey]

\* GetPublicKeyByAlias that answers with the active wallet once the alias exists.
GetPublicKeyByAlias_Active(f, fault, alias) ==
    LET r == readWalletData(f, fault)
    IN  IF r.err # "nil" THEN [err |-> r.err, val |-> ""]
        ELSE IF alias \notin DOMAIN r.data.Wallets
        THEN [err |-> "no wallet found for alias", val |-> ""]
        ELSE [err |-> "nil", val |-> r.data.Wallets[r.data.ActiveAlias].PublicKey]

\* KeyOps.GetPublicKeyByAlias
GetPublicKeyByAlias(f, fault, alias) ==
    LET r == readWalletData(f, fault)
    IN  IF r.err # "nil" THEN [err |-> r.err, val |-> ""]
        ELSE IF alias \notin DOMAIN r.data.Wallets
        THEN [err |-> "no wallet found for alias", val |-> ""]
        ELSE [err |-> "nil", val |-> r.data.Wallets[alias].PublicKey]

\* SetActiveKey without the test that the alias exists.
SetActiveKey_NoExistsCheck(f, fault, aliasToActivate, n) ==
    LET r == readWalletData(f, fault)
    IN  IF r.err # "nil" THEN [err |-> r.err, file |-> f]
        ELSE LET updatedData == Marshal([r.data EXCEPT !.ActiveAlias = aliasToActivate])
             IN  WriteFile(f, updatedData, IF n > Len(updatedData) THEN Len(updatedData) ELSE n)

\* SetActiveKey that writes the data back as it read it.
SetActiveKey_NoAssign(f, fault, aliasToActivate, n) ==
    LET r == readWalletData(f, fault)
    IN  IF r.err # "nil" THEN [err |-> r.err, file |-> f]
        ELSE IF aliasToActivate \notin DOMAIN r.data.Wallets
        THEN [err |-> "alias does not exist", file |-> f]
        ELSE LET updatedData == Marshal(r.data)
             IN  WriteFile(f, updatedData, IF n > Len(updatedData) THEN Len(updatedData) ELSE n)

\* KeyOps.SetActiveKey: [err, file], n the outcome of the write.
SetActiveKey(f, fault, aliasToActivate, n) ==
    LET r == readWalletData(f, fault)
    IN  IF r.err # "nil" THEN [err |-> r.err, file |-> f]
        ELSE IF aliasToActivate \notin DOMAIN r.data.Wallets
        THEN [err |-> "alias does not exist", file |-> f]
        ELSE LET updatedData == Marshal([r.data EXCEPT !.ActiveAlias = aliasToActivate])
             IN  WriteFile(f, updatedData, IF n > Len(updatedData) THEN Len(updatedData) ELSE n)

\* WriteKeyToFile without the test for an existing alias: the record is replaced.
WriteKeyToFile_NoConflict(f, fault1, fault2, alias, key, walletAddress, n) ==
    LET p == IsKeyFilePresent(f, fault1)
        r == IF p.present THEN readWalletData(f, fault2)
             ELSE [err |-> "nil", data |-> WalletData("", NoWallets, FALSE)]
    IN  IF p.err # "nil"
        THEN [err |-> "error checking if keys are already present", file |-> f]
        ELSE IF r.err # "nil" THEN [err |-> r.err, file |-> f]
        ELSE LET w == Wallet(getSolCLIComptKey(key), 0, walletAddress)
                 data == [r.data EXCEPT
                            !.Wallets = [a \in DOMAIN r.data.Wallets \cup {alias} |->
                                            IF a = alias THEN w ELSE r.data.Wallets[a]],
                            !.ActiveAlias = alias]
                 updatedData == Marshal(data)
             IN  WriteFile(f, updatedData, IF n > Len(updatedData) THEN Len(updatedData) ELSE n)

\* WriteKeyToFile that stores the wallet and leaves ActiveAlias as it was.
WriteKeyToFile_KeepActive(f, fault1, fault2, alias, key, walletAddress, n) ==
    LET p == IsKeyFilePresent(f, fault1)
        r == IF p.present THEN readWalletData(f, fault2)
             ELSE [err |-> "nil", data |-> WalletData("", NoWallets, FALSE)]
    IN  IF p.err # "nil"
        THEN [err |-> "error checking if keys are already present", file |-> f]
        ELSE IF r.err # "nil" THEN [err |-> r.err, file |-> f]
        ELSE IF alias \in DOMAIN r.data.Wallets
        THEN [err |-> "alias already exists", file |-> f]
        ELSE LET w == Wallet(getSolCLIComptKey(key), 0, walletAddress)
                 data == [r.data EXCEPT
                            !.Wallets = [a \in DOMAIN r.data.Wallets \cup {alias} |->
                                            IF a = alias THEN w ELSE r.data.Wallets[a]]]
                 updatedData == Marshal(data)
             IN  WriteFile(f, updatedData, IF n > Len(updatedData) THEN Len(updatedData) ELSE n)

\* WriteKeyToFile that takes a store it cannot read for one that is not there yet:
\* it starts from an empty map and writes.
WriteKeyToFile_FreshOnReadError(f, fault1, fault2, alias, key, walletAddress, n) ==
    LET p == IsKeyFilePresent(f, fault1)
        r == IF p.err = "nil" /\ p.present THEN readWalletData(f, fault2)
             ELSE [err |-> "nil", data |-> WalletData("", NoWallets, FALSE)]
        d == IF r.err # "nil" THEN WalletData("", NoWallets, FALSE) ELSE r.data
    IN  IF alias \in DOMAIN d.Wallets
        THEN [err |-> "alias already exists", file |-> f]
        ELSE IF d.WalletsNil
        THEN [err |-> "panic: assignment to entry in nil map", file |-> f]
        ELSE LET w == Wallet(getSolCLIComptKey(key), 0, walletAddress)
                 data == [d EXCEPT
                            !.Wallets = [a \in DOMAIN d.Wallets \cup {alias} |->
                                            IF a = alias THEN w ELSE d.Wallets[a]],
                            !.ActiveAlias = alias]
                 updatedData == Marshal(data)
             IN  WriteFile(f, updatedData, IF n > Len(updatedData) THEN Len(updatedData) ELSE n)

\* KeyOps.WriteKeyToFile: [err, file]. fault1 and fault2 are the outcomes of its two
\* reads, n the outcome of the write. A store whose map is nil has no alias to
\* collide with, and the assignment into the nil map panics.
WriteKeyToFile(f, fault1, fault2, alias, key, walletAddress, n) ==
    LET p == IsKeyFilePresent(f, fault1)
        r == IF p.present THEN readWalletData(f, fault2)
             ELSE [err |-> "nil", data |-> WalletData("", NoWallets, FALSE)]
    IN  IF p.err # "nil"
        THEN [err |-> "error checking if keys are already present", file |-> f]
        ELSE IF r.err # "nil" THEN [err |-> r.err, file |-> f]
        ELSE IF alias \in DOMAIN r.data.Wallets
        THEN [err |-> "alias already exists", file |-> f]
        ELSE IF r.data.WalletsNil
        THEN [err |-> "panic: assignment to entry in nil map", file |-> f]
        ELSE LET w == Wallet(getSolCLIComptKey(key), 0, walletAddress)
                 data == [r.data EXCEPT
                            !.Wallets = [a \in DOMAIN r.data.Wallets \cup {alias} |->
                                            IF a = alias THEN w ELSE r.data.Wallets[a]],
                            !.ActiveAlias = alias]
                 updatedData == Marshal(data)
             IN  WriteFile(f, updatedData, IF n > Len(updatedData) THEN Len(updatedData) ELSE n)

-----------------------------------------------------------------------------
(* The key store: one action per operation of KeyOps.                      *)

\* The longest serialization the store can have, for the outcomes of a write.
MaxBytes == MaxAliases + 5
\* How far a write gets: the open fails, the file is left empty, the write is cut
\* after CutAt tokens, or it completes.
Outcomes == {0 - 1, 0, CutAt, MaxBytes}

\* What the file system does to one call: one of its reads fails, or its write
\* gets as far as n.
IOCases == {[fault1 |-> TRUE, fault2 |-> FALSE, n |-> MaxBytes],
            [fault1 |-> FALSE, fault2 |-> TRUE, n |-> MaxBytes]}
           \cup {[fault1 |-> FALSE, fault2 |-> FALSE, n |-> n] : n \in Outcomes}
Clean(io) == ~io.fault1 /\ ~io.fault2 /\ io.n = MaxBytes

\* Decimals are counted in hundredths: a Balance of 200 is 2, a rate of 500 is 5.00.
\* decimal.StringFixed(2) of the product of two of them: rounded half up to the
\* hundredth, the integer part, a point and two digits.
StringFixed2(product) ==
    LET cents == (product + 50) \div 100
    IN  Itoa(cents \div 100)
        \o <<".", Digits[((cents % 100) \div 10) + 1], Digits[(cents % 10) + 1]>>

\* The text of an alias: a character each for those of AliasPool, and the two
\* words of SpacedAlias with the space between them.
Chars(alias) ==
    IF alias = "" THEN <<>>
    ELSE IF alias = SpacedAlias THEN <<"a", " ", "b">>
    ELSE <<alias>>

\* " (Active)"
ActiveMarker == <<" ", "(", "A", "c", "t", "i", "v", "e", ")">>
\* fmt.Sprintf(" // BAL - (€ %s)", ...)
BalanceNote(amount) ==
    <<" ", "/", "/", " ", "B", "A", "L", " ", "-", " ", "(", "€", " ">> \o amount \o <<")">>

\* An entry that leaves the cents off by cutting instead of rounding.
displayAlias_Truncating(alias, activeAlias, balance, rate) ==
    Chars(alias) \o (IF alias = activeAlias THEN ActiveMarker ELSE <<>>)
    \o BalanceNote(StringFixed2(((balance * rate) \div 100) * 100 - 50))

\* PrintAllKeys, the body of its loop: displayAlias for one wallet.
displayAlias(alias, activeAlias, balance, rate) ==
    Chars(alias) \o (IF alias = activeAlias THEN ActiveMarker ELSE <<>>)
    \o BalanceNote(StringFixed2(balance * rate))

\* fetchSOLEURRate: the rate, or an error.
RateAnswers == {[err |-> "nil", rate |-> 500], [err |-> "nil", rate |-> 333],
                [err |-> "rate lookup failed", rate |-> 0]}

\* The orders in which a range over the map may visit the aliases.
Orders(S) == {o \in [1..Cardinality(S) -> S] : \A a \in S : \E i \in DOMAIN o : o[i] = a}

NoListing == <<>>
Listing(aliases, keyMap) == <<aliases, keyMap>>

\* A listing that goes on without the balances when the rate is missing.
PrintAllKeys_Degraded(f, fault, answer, order) ==
    LET r == readWalletData(f, fault)
        visited == SelectSeq(order, LAMBDA a : a \in DOMAIN r.data.Wallets)
    IN  IF r.err # "nil" THEN [err |-> r.err, val |-> NoListing]
        ELSE [err |-> "nil",
              val |-> Listing(
                  [i \in 1..Len(visited) |->
                      IF answer.err # "nil"
                      THEN Chars(visited[i])
                           \o (IF visited[i] = r.data.ActiveAlias THEN ActiveMarker ELSE <<>>)
                      ELSE displayAlias(visited[i], r.data.ActiveAlias,
                                        r.data.Wallets[visited[i]].Balance, answer.rate)],
                  [a \in DOMAIN r.data.Wallets |-> r.data.Wallets[a].PublicKey])]

\* KeyOps.PrintAllKeys: answer is what fetchSOLEURRate returns, order the order in
\* which the range visits the map.
PrintAllKeys(f, fault, answer, order) ==
    LET r == readWalletData(f, fault)
        visited == SelectSeq(order, LAMBDA a : a \in DOMAIN r.data.Wallets)
    IN  IF r.err # "nil" THEN [err |-> r.err, val |-> NoListing]
        ELSE IF answer.err # "nil"
        THEN [err |-> "error fetching SOL to EUR rate", val |-> NoListing]
        ELSE [err |-> "nil",
              val |-> Listing(
                  [i \in 1..Len(visited) |->
                      displayAlias(visited[i], r.data.ActiveAlias,
                                   r.data.Wallets[visited[i]].Balance, answer.rate)],
                  [a \in DOMAIN r.data.Wallets |-> r.data.Wallets[a].PublicKey])]

StoreInit ==
    /\ file = NoFile
    /\ res = Result("none", "", NoWallet, TRUE, "nil", NoVal, NoFile)

DoGetCurrentPrivateKey ==
    \E fault \in BOOLEAN :
        LET r == GetCurrentPrivateKey(file, fault)
        IN  /\ res' = Result("GetCurrentPrivateKey", "", NoWallet, ~fault, r.err, r.val, file)
            /\ UNCHANGED file

DoGetCurrentPublicKey ==
    \E fault \in BOOLEAN :
        LET r == GetCurrentPublicKey(file, fault)
        IN  /\ res' = Result("GetCurrentPublicKey", "", NoWallet, ~fault, r.err, <<r.val>>, file)
            /\ UNCHANGED file

DoGetPrivateKeyByAlias ==
    \E fault \in BOOLEAN, alias \in Aliases :
        LET r == GetPrivateKeyByAlias(file, fault, alias)
        IN  /\ res' = Result("GetPrivateKeyByAlias", alias, NoWallet, ~fault, r.err, r.val, file)
            /\ UNCHANGED file

DoGetPublicKeyByAlias ==
    \E fault \in BOOLEAN, alias \in Aliases :
        LET r == GetPublicKeyByAlias(file, fault, alias)
        IN  /\ res' = Result("GetPublicKeyByAlias", alias, NoWallet, ~fault, r.err, <<r.val>>, file)
            /\ UNCHANGED file

DoIsKeyFilePresent ==
    \E fault \in BOOLEAN :
        LET r == IsKeyFilePresent(file, fault)
        IN  /\ res' = Result("IsKeyFilePresent", "", NoWallet, ~fault, r.err,
                             <<IF r.present THEN "true" ELSE "false">>, file)
            /\ UNCHANGED file

\* The wallet slot of the result keeps the rate answer the call was given.
DoPrintAllKeys ==
    \E fault \in BOOLEAN, answer \in RateAnswers,
       order \in Orders(DOMAIN readWalletData(file, FALSE).data.Wallets) :
        LET r == PrintAllKeys(file, fault, answer, order)
        IN  /\ res' = Result("PrintAllKeys", "", answer, ~fault, r.err, r.val, file)
            /\ UNCHANGED file

DoSetActiveKey ==
    \E io \in IOCases, alias \in Aliases :
        /\ ~io.fault2
        /\ LET r == SetActiveKey(file, io.fault1, alias, io.n)
           IN  /\ file' = r.file
               /\ res' = Result("SetActiveKey", alias, NoWallet, Clean(io), r.err, NoVal, file)

\* The result keeps which of the two reads was made to fail: fault1 the one of
\* IsKeyFilePresent, fault2 the one of readWalletData, which a missing file never
\* reaches.
DoWriteKeyToFile ==
    \E io \in IOCases, alias \in Aliases, w \in NewWallets :
        LET r == WriteKeyToFile(file, io.fault1, io.fault2, alias, w.key, w.address, io.n)
        IN  /\ file' = r.file
            /\ res' = [op |-> "WriteKeyToFile", alias |-> alias, wallet |-> w,
                       clean |-> Clean(io), fault1 |-> io.fault1, fault2 |-> io.fault2,
                       err |-> r.err, val |-> NoVal, before |-> file]

-----------------------------------------------------------------------------
(* The balance lookup of pkg/wallet/solana_api.go.                         *)

LamportsInOneSol == 1000000000

IsBase58(c) == \E d \in 1..58 : Base58Alphabet[d] = c
Base58Val(c) == (CHOOSE d \in 1..58 : Base58Alphabet[d] = c) - 1

RECURSIVE Base58Number(_, _)
Base58Number(s, acc) == IF s = <<>> THEN acc
                        ELSE Base58Number(Tail(s), acc * 58 + Base58Val(Head(s)))

RECURSIVE BytesOf(_)
BytesOf(n) == IF n = 0 THEN <<>> ELSE BytesOf(n \div 256) \o <<n % 256>>

RECURSIVE LeadingOnes(_)
LeadingOnes(s) == IF s = <<>> \/ Head(s) # "1" THEN 0 ELSE 1 + LeadingOnes(Tail(s))

\* base58.Decode: no character outside the alphabet, a zero byte per leading "1",
\* then the bytes of the number.
base58Decode(s) ==
    IF s = <<>> THEN [err |-> "zero length string", key |-> <<>>]
    ELSE IF \E i \in 1..Len(s) : ~IsBase58(s[i])
    THEN [err |-> "invalid base58 digit", key |-> <<>>]
    ELSE [err |-> "nil",
          key |-> [i \in 1..LeadingOnes(s) |-> 0] \o BytesOf(Base58Number(s, 0))]

\* The address of a private key, for the key pairs of NewWallets.
PublicKeyOf(key) ==
    IF \E w \in NewWallets : w.key = key
    THEN (CHOOSE w \in NewWallets : w.key = key).address
    ELSE "PUBKEY?"

\* fetchPublicKeyFromPrivateKey: solana.WalletFromPrivateKeyBase58, then PublicKey().
fetchPublicKeyFromPrivateKey(privateKey) ==
    LET k == base58Decode(privateKey)
    IN  IF k.err # "nil" THEN [err |-> k.err, val |-> ""]
        ELSE [err |-> "nil", val |-> PublicKeyOf(k.key)]

\* fetchPublicKeyByAlias
fetchPublicKeyByAlias(f, fault, alias) ==
    LET r == GetPrivateKeyByAlias(f, fault, alias)
    IN  IF r.err # "nil" THEN [err |-> r.err, val |-> ""]
        ELSE fetchPublicKeyFromPrivateKey(r.val)

\* fetchCurrentPublicKey
fetchCurrentPublicKey(f, fault) ==
    LET r == GetCurrentPrivateKey(f, fault)
    IN  IF r.err # "nil" THEN [err |-> r.err, val |-> ""]
        ELSE fetchPublicKeyFromPrivateKey(r.val)

\* What rpcClient.GetBalance answers: an error, or a number of lamports.
GetBalanceAnswers == {[ok |-> FALSE, value |-> 0], [ok |-> TRUE, value |-> 0],
                      [ok |-> TRUE, value |-> 1500000000]}

\* The wallets a WalletConfig may hold in memory: none, or one of NewWallets.
LoadedWallets == {NoWallet} \cup NewWallets

NotAsked == ""
\* The result of a lookup: asked is the address GetBalance was called with; sol
\* and nano are the whole part and the nine decimals of the quotient.
Balance(err, cause, asked, lamports) ==
    [err |-> err, cause |-> cause, asked |-> asked,
     sol |-> lamports \div LamportsInOneSol, nano |-> lamports % LamportsInOneSol]

\* fetchSolBalance that looks at the alias before the wallet in memory.
fetchSolBalance_AliasFirst(f, fault, w, alias, answer) ==
    LET pk == IF alias # "" THEN fetchPublicKeyByAlias(f, fault, alias)
              ELSE IF w # NoWallet THEN [err |-> "nil", val |-> PublicKeyOf(w.key)]
              ELSE fetchCurrentPublicKey(f, fault)
    IN  IF pk.err # "nil" THEN Balance("failed to fetch public key", pk.err, NotAsked, 0)
        ELSE IF ~answer.ok THEN Balance("failed to fetch balance", "rpc", pk.val, 0)
        ELSE Balance("nil", "nil", pk.val, answer.value)

\* WalletConfig.fetchSolBalance: w is w.Wallet, NoWallet when it is nil.
fetchSolBalance(f, fault, w, alias, answer) ==
    LET pk == IF w # NoWallet THEN [err |-> "nil", val |-> PublicKeyOf(w.key)]
              ELSE IF alias # "" THEN fetchPublicKeyByAlias(f, fault, alias)
              ELSE fetchCurrentPublicKey(f, fault)
    IN  IF pk.err # "nil" THEN Balance("failed to fetch public key", pk.err, NotAsked, 0)
        ELSE IF ~answer.ok THEN Balance("failed to fetch balance", "rpc", pk.val, 0)
        ELSE Balance("nil", "nil", pk.val, answer.value)

DoFetchSolBalance ==
    \E fault \in BOOLEAN, w \in LoadedWallets, alias \in Aliases,
       answer \in GetBalanceAnswers :
        LET r == fetchSolBalance(file, fault, w, alias, answer)
        IN  /\ res' = Result("fetchSolBalance", alias, w, ~fault, r.err,
                             [answer |-> answer, out |-> r], file)
            /\ UNCHANGED file

-----------------------------------------------------------------------------
(* The instruction decoder.                                                *)

transferInstructionType == 2
systemProgramIDStr == "11111111111111111111111111111111"

\* The little-endian value of a slice of bytes, for a value below 2^31.
RECURSIVE LittleEndian(_)
LittleEndian(b) == IF b = <<>> THEN 0 ELSE Head(b) + 256 * LittleEndian(Tail(b))
Narrow(b) == \A i \in 4..Len(b) : b[i] = 0 \/ (i = 4 /\ b[i] < 128)

\* binary.LittleEndian.Uint32(b) == n, for n below 2^31.
Uint32Is(b, n) == Narrow(b) /\ LittleEndian(b) = n

\* binary.LittleEndian.Uint64(b): the number, kept as its eight bytes when it is
\* 2^31 or more.
Uint64LE(b) == IF Narrow(b) THEN LittleEndian(b) ELSE [bytes |-> b]

\* type Transaction
Transaction(amount, from, to, timestamp, isSender) ==
    [Amount |-> amount, From |-> from, To |-> to, Timestamp |-> timestamp,
     IsSender |-> isSender]

\* The backing array of instruction.Data from its first byte: the data, and the
\* bytes that follow it up to the capacity of the slice.
Backing(in) == in.Data \o in.Spare

\* A decoder that reads the instruction type from the first byte alone.
DecodeInstruction_OneByteType(tx, in, timestamp, address) ==
    IF in.ProgramIDIndex >= Len(tx.AccountKeys)
    THEN [kind |-> "error", ev |-> <<>>]
    ELSE IF tx.AccountKeys[in.ProgramIDIndex + 1] # systemProgramIDStr
    THEN [kind |-> "skip", ev |-> <<>>]
    ELSE IF Len(Backing(in)) < 4 THEN [kind |-> "panic", ev |-> <<>>]
    ELSE IF Backing(in)[1] # transferInstructionType
    THEN [kind |-> "skip", ev |-> <<>>]
    ELSE IF \/ Len(in.Accounts) < 2
            \/ in.Accounts[1] >= Len(tx.AccountKeys)
            \/ in.Accounts[2] >= Len(tx.AccountKeys)
            \/ Len(Backing(in)) < 12
    THEN [kind |-> "panic", ev |-> <<>>]
    ELSE LET sender == tx.AccountKeys[in.Accounts[1] + 1]
             receiver == tx.AccountKeys[in.Accounts[2] + 1]
             amount == Uint64LE(SubSeq(Backing(in), 5, 12))
         IN  [kind |-> "event",
              ev |-> <<Transaction(amount, sender, receiver, timestamp, sender = address)>>]

\* What decodeSystemTransfer does with one instruction: "skip" (the continue
\* statements), "event", "error" (ResolveProgramIDIndex) or "panic" (a slice or an
\* index out of range). Account indexes count from 0, as in the message. The slice
\* expressions Data[0:4] and Data[4:12] are bounded by the capacity of Data, not by
\* its length: they read on into the backing array.
DecodeInstruction(tx, in, timestamp, address) ==
    IF in.ProgramIDIndex >= Len(tx.AccountKeys)
    THEN [kind |-> "error", ev |-> <<>>]
    ELSE IF tx.AccountKeys[in.ProgramIDIndex + 1] # systemProgramIDStr
    THEN [kind |-> "skip", ev |-> <<>>]
    ELSE IF Len(Backing(in)) < 4 THEN [kind |-> "panic", ev |-> <<>>]
    ELSE IF ~Uint32Is(SubSeq(Backing(in), 1, 4), transferInstructionType)
    THEN [kind |-> "skip", ev |-> <<>>]
    ELSE IF \/ Len(in.Accounts) < 2
            \/ in.Accounts[1] >= Len(tx.AccountKeys)
            \/ in.Accounts[2] >= Len(tx.AccountKeys)
            \/ Len(Backing(in)) < 12
    THEN [kind |-> "panic", ev |-> <<>>]
    ELSE LET sender == tx.AccountKeys[in.Accounts[1] + 1]
             receiver == tx.AccountKeys[in.Accounts[2] + 1]
             amount == Uint64LE(SubSeq(Backing(in), 5, 12))
         IN  [kind |-> "event",
              ev |-> <<Transaction(amount, sender, receiver, timestamp, sender = address)>>]

\* decodeSystemTransfer: the instructions in order; the first error or panic ends it.
RECURSIVE DecodeFrom(_, _, _, _, _)
DecodeFrom(tx, i, timestamp, address, acc) ==
    IF i > Len(tx.Instructions) THEN [err |-> "nil", txs |-> acc]
    ELSE LET d == DecodeInstruction(tx, tx.Instructions[i], timestamp, address)
         IN  IF d.kind = "error" THEN [err |-> "resolve program ID index", txs |-> <<>>]
             ELSE IF d.kind = "panic" THEN [err |-> "panic", txs |-> <<>>]
             ELSE DecodeFrom(tx, i + 1, timestamp, address, acc \o d.ev)

decodeSystemTransfer(tx, timestamp, address) == DecodeFrom(tx, 1, timestamp, address, <<>>)

-----------------------------------------------------------------------------
(* The ledger the remote calls answer from.                                *)

\* A CompiledInstruction whose Data has no capacity beyond its length.
Instruction(programIDIndex, accounts, data) ==
    [ProgramIDIndex |-> programIDIndex, Accounts |-> accounts, Data |-> data,
     Spare |-> <<>>]

\* The bytes of an instruction in the wire transaction: the program index, the
\* accounts and the data, each of the two behind its length.
Wire(in) ==
    <<in.ProgramIDIndex, Len(in.Accounts)>> \o in.Accounts \o <<Len(in.Data)>> \o in.Data
RECURSIVE WireFrom(_, _)
WireFrom(instructions, i) ==
    IF i > Len(instructions) THEN <<>>
    ELSE Wire(instructions[i]) \o WireFrom(instructions, i + 1)

\* solana.TransactionFromDecoder: the Data of an instruction is a slice of the
\* decoder's buffer, so its capacity reaches to the end of the transaction: over
\* the instructions that follow it.
FromDecoder(instructions) ==
    [i \in 1..Len(instructions) |->
        [instructions[i] EXCEPT !.Spare = WireFrom(instructions, i + 1)]]

\* The data of a system transfer: the 4-byte type, then the 8-byte amount.
TransferData(lo, hi) == <<2, 0, 0, 0, lo, hi, 0, 0, 0, 0, 0, 0>>

Keys3 == <<"ADDR1", "ADDR2", systemProgramIDStr, "TokenProgram">>

\* decodable is FALSE for bytes solana.TransactionFromDecoder rejects.
Tx(instructions) ==
    [decodable |-> TRUE, AccountKeys |-> Keys3, Instructions |-> FromDecoder(instructions)]

TxSend == Tx(<<Instruction(2, <<0, 1>>, TransferData(1, 0))>>)
TxReceive == Tx(<<Instruction(2, <<1, 0>>, TransferData(2, 1))>>)
TxMixed == Tx(<<Instruction(3, <<0, 1>>, <<3>>),
                Instruction(2, <<0, 1>>, <<0, 0, 0, 0, 9, 9, 9, 9>>),
                Instruction(2, <<0, 1>>, TransferData(3, 0)),
                Instruction(2, <<1, 0>>, TransferData(3, 0))>>)
TxNone == Tx(<<Instruction(3, <<0, 1>>, TransferData(5, 0))>>)
TxShort == Tx(<<Instruction(2, <<0, 1>>, <<2, 0, 0, 0, 7>>)>>)
TxBadProgram == Tx(<<Instruction(4, <<0, 1>>, TransferData(1, 0))>>)
TxGarbled == [Tx(<<>>) EXCEPT !.decodable = FALSE]

\* The ledgers of the model: the signatures of an address are a window of TxPool.
TxPool == <<TxSend, TxMixed, TxReceive, TxNone, TxBadProgram, TxGarbled, TxShort>>
Ledgers == {SubSeq(TxPool, w[1], w[1] + w[2] - 1) :
               w \in {v \in (1..Len(TxPool)) \X (0..MaxSigs) :
                          v[1] + v[2] - 1 <= Len(TxPool)}}

\* rpc.GetTransaction answers with the slot of the signature, rpc.GetBlockTime with
\* the time of the slot.
SlotOf(i) == 10 * i
BlockTimeOf(slot) == 1000 + slot

\* solana.PublicKeyFromBase58: the addresses of the ledger and those of the key
\* pairs of NewWallets are public keys.
ValidPublicKey(s) == s \in {"ADDR1", "ADDR2"} \cup {w.address : w \in NewWallets}

-----------------------------------------------------------------------------
(* fetchTransactions and its goroutines.                                   *)

Err(what, sig) == [what |-> what, sig |-> sig]
Nil == Err("nil", 0)

Sigs == 1..Len(sigs)

NewTask == [pc |-> "idle", err |-> Nil, txList |-> <<>>, slot |-> 0]

\* One remote call, or one slot taken, as the properties see it: with the state of
\* the errgroup's context as it was issued, and post when fetchTransactions had
\* already returned.
Call(name, sig, arg) ==
    [call |-> name, sig |-> sig, arg |-> arg, ctx |-> ctx, post |-> pc = "returned"]

\* The deferred cancel() of fetchTransactions and the one of eg.Wait.
Canceled(c) == IF c = "live" THEN "canceled" ELSE c

\* transactions = append(transactions, txList...)
AppendResult(all, txList) == all \o txList

\* eg.Wait() and the two return statements after it.
WaitResult(err, all) ==
    IF err # Nil THEN [err |-> err, txs |-> <<>>] ELSE [err |-> Nil, txs |-> all]

AggInit ==
    /\ publicKeyStr \in {"ADDR1", "not-base58"}
    /\ sigs \in Ledgers
    /\ pc = "start"
    /\ idx = 1
    /\ task = [i \in 1..Len(sigs) |-> NewTask]
    /\ sem \in {[size |-> n, cur |-> 0] : n \in {1, MaxSlots}}
    /\ mu = 0
    /\ transactions = <<>>
    /\ ctx = "live"
    /\ egErr = Nil
    /\ ret = [err |-> Nil, txs |-> <<>>, egErr |-> Nil]
    /\ hist = EmptyBag

Return(err, txs) ==
    /\ pc' = "returned"
    /\ ret' = [err |-> err, txs |-> txs, egErr |-> egErr]
    /\ ctx' = Canceled(ctx)

\* solana.PublicKeyFromBase58, context.WithTimeout, and GetSignaturesForAddress issued.
FetchStart ==
    /\ pc = "start"
    /\ IF ~ValidPublicKey(publicKeyStr)
       THEN /\ pc' = "returned"
            /\ ret' = [err |-> Err("invalid public key", 0), txs |-> <<>>, egErr |-> egErr]
            /\ UNCHANGED hist
       ELSE /\ pc' = "getSignatures"
            /\ hist' = hist (+) SetToBag({Call("GetSignaturesForAddress", 0, 0)})
            /\ UNCHANGED ret
    /\ UNCHANGED <<publicKeyStr, sigs, idx, task, sem, mu, transactions, ctx, egErr>>

\* A failed GetSignaturesForAddress that is issued again.
GetSignaturesReturns_Retry ==
    /\ pc = "getSignatures"
    /\ \E ok \in BOOLEAN :
          IF ok THEN pc' = "loop" /\ UNCHANGED <<ret, ctx, hist>>
          ELSE /\ hist' = hist (+) SetToBag({Call("GetSignaturesForAddress", 0, 0)})
               /\ UNCHANGED <<pc, ret, ctx>>
    /\ UNCHANGED <<publicKeyStr, sigs, idx, task, sem, mu, transactions, egErr>>

\* GetSignaturesForAddress returns.
GetSignaturesReturns ==
    /\ pc = "getSignatures"
    /\ \E ok \in BOOLEAN :
          IF ok THEN pc' = "loop" /\ UNCHANGED <<ret, ctx>>
          ELSE Return(Err("get signatures for address", 0), <<>>)
    /\ UNCHANGED <<publicKeyStr, sigs, idx, task, sem, mu, transactions, egErr, hist>>

\* The timeout of the context of fetchTransactions, the parent of the errgroup's.
Deadline ==
    /\ pc \in {"loop", "go", "wait"}
    /\ ctx = "live"
    /\ ctx' = "deadline"
    /\ UNCHANGED <<publicKeyStr, sigs, pc, idx, task, sem, mu, transactions, egErr, ret, hist>>

\* An Acquire that never waits for a free slot.
AcquireSlot_Unbounded ==
    /\ pc = "loop" /\ idx <= Len(sigs)
    /\ sem' = [sem EXCEPT !.cur = sem.cur + 1]
    /\ pc' = "go"
    /\ hist' = hist (+) SetToBag({Call("Acquire", idx, 0)})
    /\ UNCHANGED <<publicKeyStr, sigs, idx, task, mu, transactions, ctx, egErr, ret>>

\* sem.Acquire(ctx, 1) returns nil. With the context done and a slot free, whether
\* Acquire takes the slot or fails depends on the version of x/sync and on the race
\* between the release and the cancellation: both are possible.
AcquireSlot ==
    /\ pc = "loop" /\ idx <= Len(sigs)
    /\ sem.cur < sem.size
    /\ sem' = [sem EXCEPT !.cur = sem.cur + 1]
    /\ pc' = "go"
    /\ hist' = hist (+) SetToBag({Call("Acquire", idx, 0)})
    /\ UNCHANGED <<publicKeyStr, sigs, idx, task, mu, transactions, ctx, egErr, ret>>

\* sem.Acquire(ctx, 1) returns ctx.Err(): fetchTransactions returns at once.
AcquireFails ==
    /\ pc = "loop" /\ idx <= Len(sigs)
    /\ ctx # "live"
    /\ Return(Err("failed to acquire semaphore", IF ctx = "deadline" THEN 0 - 1 ELSE 0), <<>>)
    /\ UNCHANGED <<publicKeyStr, sigs, idx, task, sem, mu, transactions, egErr, hist>>

\* eg.Go: the goroutine of signature idx starts.
Go ==
    /\ pc = "go"
    /\ task' = [task EXCEPT ![idx].pc = "spawned"]
    /\ idx' = idx + 1
    /\ pc' = "loop"
    /\ UNCHANGED <<publicKeyStr, sigs, sem, mu, transactions, ctx, egErr, ret, hist>>

\* The range loop ends.
LoopDone ==
    /\ pc = "loop" /\ idx > Len(sigs)
    /\ pc' = "wait"
    /\ UNCHANGED <<publicKeyStr, sigs, idx, task, sem, mu, transactions, ctx, egErr, ret, hist>>

\* eg.Wait() returns once every goroutine has, and fetchTransactions returns.
Wait ==
    /\ pc = "wait"
    /\ \A i \in Sigs : task[i].pc \in {"done", "panicked"}
    /\ LET r == WaitResult(egErr, transactions) IN Return(r.err, r.txs)
    /\ UNCHANGED <<publicKeyStr, sigs, idx, task, sem, mu, transactions, egErr, hist>>

Running == pc # "crashed"

\* fetchSingleTransaction: its own context from context.Background(), and
\* client.GetTransaction issued.
TaskGetTransaction(i) ==
    /\ Running /\ task[i].pc = "spawned"
    /\ task' = [task EXCEPT ![i].pc = "inGetTransaction"]
    /\ hist' = hist (+) SetToBag({Call("GetTransaction", i, i)})
    /\ UNCHANGED <<publicKeyStr, sigs, pc, idx, sem, mu, transactions, ctx, egErr, ret>>

\* An error return that skips the release of the slot.
TaskFails_NoRelease(i, what) == [task EXCEPT ![i].pc = "exit", ![i].err = Err(what, i)]

\* The task's function returns err: what follows is the deferred sem.Release.
TaskFails(i, what) == [task EXCEPT ![i].pc = "release", ![i].err = Err(what, i)]

\* A task that asks for the block time whatever GetTransaction returned.
TaskGetTransactionReturns_Regardless(i) ==
    /\ Running /\ task[i].pc = "inGetTransaction"
    /\ task' = [task EXCEPT ![i].pc = "inGetBlockTime", ![i].slot = 0]
    /\ hist' = hist (+) SetToBag({Call("GetBlockTime", i, 0)})
    /\ UNCHANGED <<publicKeyStr, sigs, pc, idx, sem, mu, transactions, ctx, egErr, ret>>

\* client.GetTransaction returns (an error, its timeout included, or the
\* transaction); the bytes are decoded and client.GetBlockTime is issued.
TaskGetTransactionReturns(i) ==
    /\ Running /\ task[i].pc = "inGetTransaction"
    /\ \E ok \in BOOLEAN :
          IF ~ok THEN task' = TaskFails(i, "get transaction") /\ UNCHANGED hist
          ELSE IF ~sigs[i].decodable
          THEN task' = TaskFails(i, "transaction from decoder") /\ UNCHANGED hist
          ELSE /\ task' = [task EXCEPT ![i].pc = "inGetBlockTime", ![i].slot = SlotOf(i)]
               /\ hist' = hist (+) SetToBag({Call("GetBlockTime", i, SlotOf(i))})
    /\ UNCHANGED <<publicKeyStr, sigs, pc, idx, sem, mu, transactions, ctx, egErr, ret>>

\* client.GetBlockTime returns, and decodeSystemTransfer runs. A panic unwinds the
\* goroutine: its deferred calls run, sem.Release and the errgroup's done, before
\* the program ends.
TaskGetBlockTimeReturns(i) ==
    /\ Running /\ task[i].pc = "inGetBlockTime"
    /\ \E ok \in BOOLEAN :
          IF ~ok THEN task' = TaskFails(i, "get block time") /\ UNCHANGED pc
          ELSE LET d == decodeSystemTransfer(sigs[i], BlockTimeOf(task[i].slot), publicKeyStr)
               IN  IF d.err = "panic"
                   THEN task' = [task EXCEPT ![i].pc = "unwind"] /\ UNCHANGED pc
                   ELSE IF d.err # "nil" THEN task' = TaskFails(i, d.err) /\ UNCHANGED pc
                   ELSE /\ task' = [task EXCEPT ![i].pc = "lock", ![i].txList = d.txs]
                        /\ UNCHANGED pc
    /\ UNCHANGED <<publicKeyStr, sigs, idx, sem, mu, transactions, ctx, egErr, ret, hist>>

\* A Lock that does not wait for the holder.
TaskLock_NoWait(i) ==
    /\ Running /\ task[i].pc = "lock"
    /\ mu' = i
    /\ task' = [task EXCEPT ![i].pc = "append"]
    /\ UNCHANGED <<publicKeyStr, sigs, pc, idx, sem, transactions, ctx, egErr, ret, hist>>

\* transactionsMutex.Lock()
TaskLock(i) ==
    /\ Running /\ task[i].pc = "lock"
    /\ mu = 0
    /\ mu' = i
    /\ task' = [task EXCEPT ![i].pc = "append"]
    /\ UNCHANGED <<publicKeyStr, sigs, pc, idx, sem, transactions, ctx, egErr, ret, hist>>

\* transactions = append(transactions, txList...)
TaskAppend(i) ==
    /\ Running /\ task[i].pc = "append"
    /\ transactions' = AppendResult(transactions, task[i].txList)
    /\ task' = [task EXCEPT ![i].pc = "unlock"]
    /\ UNCHANGED <<publicKeyStr, sigs, pc, idx, sem, mu, ctx, egErr, ret, hist>>

\* The deferred transactionsMutex.Unlock()
TaskUnlock(i) ==
    /\ Running /\ task[i].pc = "unlock"
    /\ mu' = 0
    /\ task' = [task EXCEPT ![i].pc = "release"]
    /\ UNCHANGED <<publicKeyStr, sigs, pc, idx, sem, transactions, ctx, egErr, ret, hist>>

\* The deferred sem.Release(1)
TaskRelease(i) ==
    /\ Running /\ task[i].pc \in {"release", "unwind"}
    /\ sem' = [sem EXCEPT !.cur = sem.cur - 1]
    /\ task' = [task EXCEPT ![i].pc = IF task[i].pc = "unwind" THEN "unwound" ELSE "exit"]
    /\ UNCHANGED <<publicKeyStr, sigs, pc, idx, mu, transactions, ctx, egErr, ret, hist>>

\* errgroup: the first error is kept and cancels the context; the goroutine is
\* done. A panicking goroutine passes the deferred done alone: no error is kept.
TaskExit(i) ==
    /\ Running /\ task[i].pc \in {"exit", "unwound"}
    /\ task' = [task EXCEPT ![i].pc = IF task[i].pc = "unwound" THEN "panicked" ELSE "done"]
    /\ IF task[i].pc = "exit" /\ task[i].err # Nil /\ egErr = Nil
       THEN egErr' = task[i].err /\ ctx' = Canceled(ctx)
       ELSE UNCHANGED <<egErr, ctx>>
    /\ UNCHANGED <<publicKeyStr, sigs, pc, idx, sem, mu, transactions, ret, hist>>

\* The runtime ends the program once the panicking goroutine has unwound.
Crash ==
    /\ Running /\ \E i \in Sigs : task[i].pc = "panicked"
    /\ pc' = "crashed"
    /\ UNCHANGED <<publicKeyStr, sigs, idx, task, sem, mu, transactions, ctx, egErr, ret, hist>>

-----------------------------------------------------------------------------
(* decodeSystemTransfer on its own, over transactions built from a pool of  *)
(* instructions.                                                           *)

InstructionPool ==
    <<Instruction(2, <<0, 1>>, TransferData(1, 0)),
      Instruction(2, <<1, 0>>, TransferData(2, 1)),
      Instruction(2, <<1, 3>>, <<2, 0, 0, 0, 0, 0, 0, 64, 0, 0, 0, 0>>),
      Instruction(3, <<0, 1>>, TransferData(5, 0)),
      Instruction(3, <<>>, <<3>>),
      Instruction(2, <<0, 1>>, <<0, 0, 0, 0, 9, 9, 9, 9, 0, 0, 0, 0>>),
      Instruction(2, <<0, 1>>, <<2, 0, 0, 1, 4, 0, 0, 0, 0, 0, 0, 0>>),
      Instruction(2, <<0, 1>>, <<3, 0, 0, 0>>),
      Instruction(2, <<0, 1>>, <<2, 0>>),
      Instruction(2, <<0, 1>>, <<2, 0, 0, 0, 7>>),
      Instruction(2, <<0>>, TransferData(1, 0)),
      Instruction(2, <<0, 9>>, TransferData(1, 0)),
      Instruction(4, <<0, 1>>, TransferData(1, 0))>>

RECURSIVE InstructionLists(_)
InstructionLists(n) ==
    IF n = 0 THEN {<<>>}
    ELSE LET shorter == InstructionLists(n - 1)
         IN  shorter \cup {Append(l, InstructionPool[k]) :
                              l \in {m \in shorter : Len(m) = n - 1},
                              k \in 1..Len(InstructionPool)}

DecodeInputs == {Tx(l) : l \in InstructionLists(MaxInstructions)}

DecodeInit ==
    /\ publicKeyStr \in {"ADDR1", "ADDR2"}
    /\ sigs \in {<<tx>> : tx \in DecodeInputs}
    /\ pc = "decode"
    /\ idx = 1
    /\ task \in {<<[NewTask EXCEPT !.slot = SlotOf(k)]>> : k \in 1..2}
    /\ sem = [size |-> 1, cur |-> 0] /\ mu = 0 /\ transactions = <<>> /\ ctx = "live"
    /\ egErr = Nil
    /\ ret = [err |-> Nil, txs |-> <<>>, egErr |-> Nil] /\ hist = EmptyBag

\* decodeSystemTransfer(tx, blockTime.Time(), publicKey): its two results, or the
\* panic.
Decode ==
    /\ pc = "decode"
    /\ LET d == decodeSystemTransfer(sigs[1], BlockTimeOf(task[1].slot), publicKeyStr)
       IN  /\ pc' = IF d.err = "panic" THEN "crashed" ELSE "decoded"
           /\ task' = [task EXCEPT ![1].err = Err(d.err, 1), ![1].txList = d.txs]
    /\ UNCHANGED <<publicKeyStr, sigs, idx, sem, mu, transactions, ctx, egErr, ret, hist>>

-----------------------------------------------------------------------------
(* The key store on a file written in the documented format.                *)

\* The name the key's member has in the documented file: "privateKey" in the
\* specification, "PrivateKey" in the development notes.
DocumentedKeyFields == {"privateKey", "PrivateKey"}

\* The key of the wallet the documented file keeps under alias.
DocumentedKey(alias) == IF alias = "a" THEN KeyOf(7) ELSE KeyOf(254)
DocumentedAddress(alias) == IF alias = "a" THEN "PUBKEYA" ELSE "PUBKEYB"
DocumentedEntry(alias, kf) ==
    EntryTok(alias, kf, Wallet(getSolCLIComptKey(DocumentedKey(alias)), 0,
                               DocumentedAddress(alias)))

\* {"activeAlias":active,"wallets":{"a":{kf:"[..]","balance":"0","publicKey":..},..}}
DocumentedStore(kf, active, aliases) ==
    <<Tok("{"), ActiveTok(active), Tok("wallets:{")>>
    \o [i \in 1..Len(aliases) |-> DocumentedEntry(aliases[i], kf)]
    \o <<Tok("}w"), Tok("}")>>

StoresWith(fields) ==
    {DocumentedStore(kf, active, aliases) :
        kf \in fields, active \in {"a", "b"},
        aliases \in {<<"a">>, <<"b">>, <<"a", "b">>}}
DocumentedStores == StoresWith(DocumentedKeyFields)

\* Spellings of the key's member that the program reads: the one it writes, and
\* one with the k written as the Kelvin sign.
ReadKeyFields == {KeyField, KelvinSign \o "ey"}

\* A key file of the program's own shape whose balances were edited by hand: the
\* program writes a balance of zero and never updates it, and reads what it finds.
EditedBalance(alias) == IF alias = "a" THEN 200 ELSE 5
EditedStore(active, aliases) ==
    <<Tok("{"), ActiveTok(active), Tok("wallets:{")>>
    \o [i \in 1..Len(aliases) |->
          EntryTok(aliases[i], KeyField,
                   Wallet(getSolCLIComptKey(DocumentedKey(aliases[i])),
                          EditedBalance(aliases[i]), DocumentedAddress(aliases[i])))]
    \o <<Tok("}w"), Tok("}")>>
EditedStores ==
    {EditedStore(active, aliases) :
        active \in {"a", "b"}, aliases \in {<<"a">>, <<"b">>, <<"a", "b">>}}

\* A key text that holds fewer bytes than a private key has, as an edited or
\* imported file may carry under the member the program reads.
UndersizedKey == SubSeq(KeyOf(7), 1, KeyLen - 1)
UndersizedStore ==
    <<Tok("{"), ActiveTok("a"), Tok("wallets:{"),
      EntryTok("a", KeyField, Wallet(getSolCLIComptKey(UndersizedKey), 0, "PUBKEYA")),
      Tok("}w"), Tok("}")>>

\* The file the program finds: a documented one, one of the same shape with the
\* key under the member the program itself writes, one with edited balances, or
\* the one with the short key.
DocInit ==
    /\ file \in {FileOf(b) : b \in DocumentedStores \cup StoresWith(ReadKeyFields)
                                     \cup EditedStores \cup {UndersizedStore}}
    /\ res = Result("none", "", NoWallet, TRUE, "nil", NoVal, NoFile)

\* The key file as the balance lookups find it: a store the program wrote, with
\* one or two wallets, whose balances were edited since.
BalInit ==
    /\ file \in {FileOf(EditedStore("a", <<"a">>)),
                  FileOf(EditedStore("a", <<"a", "b">>))}
    /\ res = Result("none", "", NoWallet, TRUE, "nil", NoVal, NoFile)

\* Files that parse and hold no wallets mapping: {} and
\* {"activeAlias":"","wallets":null}.
MaplessStores == {<<Tok("{"), Tok("}")>>,
                  <<Tok("{"), ActiveTok(""), Tok("wallets:null"), Tok("}")>>}

\* The key file as the program finds it: one without the mapping.
MaplessInit ==
    /\ file \in {FileOf(b) : b \in MaplessStores}
    /\ res = Result("none", "", NoWallet, TRUE, "nil", NoVal, NoFile)

-----------------------------------------------------------------------------
(* The transactions command of cmd/trnx.go.                                *)

\* The events a history may hold: two of them carry the same block time.
EventPool ==
    <<Transaction(1500000000, "ADDR1", "ADDR2", 1010, TRUE),
      Transaction(2, "ADDR2", "ADDR1", 1020, FALSE),
      Transaction(250000000, "ADDR1", "ADDR3", 1020, TRUE),
      Transaction(1000000000, "ADDR3", "ADDR1", 1030, FALSE)>>

RECURSIVE Histories(_)
Histories(n) ==
    IF n = 0 THEN {<<>>}
    ELSE LET shorter == Histories(n - 1)
         IN  shorter \cup {Append(l, EventPool[k]) :
                              l \in {m \in shorter : Len(m) = n - 1},
                              k \in 1..Len(EventPool)}

\* transactions[i].Timestamp.After(transactions[j].Timestamp)
After(a, b) == a.Timestamp > b.Timestamp

\* sort.Slice on a slice of fewer than twelve elements is an insertion sort: each
\* element moves left while less(it, its left neighbour).
RECURSIVE InsertLeft(_, _)
InsertLeft(sorted, x) ==
    IF sorted = <<>> THEN <<x>>
    ELSE IF After(x, sorted[Len(sorted)])
    THEN InsertLeft(SubSeq(sorted, 1, Len(sorted) - 1), x) \o <<sorted[Len(sorted)]>>
    ELSE Append(sorted, x)

RECURSIVE SortSlice(_, _)
SortSlice(done, rest) ==
    IF rest = <<>> THEN done ELSE SortSlice(InsertLeft(done, Head(rest)), Tail(rest))

\* amountInEur.StringFixed(2): the lamports over 10^9 times the rate (in
\* hundredths), rounded half up to the hundredth.
AmountInEur(lamports, rate) ==
    LET hi == (lamports \div 100000) * rate
        lo == (lamports % 100000) * rate
        cents == (hi + 5000 + lo \div 100000) \div 10000
    IN  Itoa(cents \div 100)
        \o <<".", Digits[((cents % 100) \div 10) + 1], Digits[(cents % 10) + 1]>>

\* printTransaction: the block of one event.
printTransaction(tx, rate) ==
    [Action |-> IF tx.IsSender THEN "Sent" ELSE "Received",
     From |-> tx.From, To |-> tx.To,
     Amount |-> AmountInEur(tx.Amount, rate), Timestamp |-> tx.Timestamp]

NothingToDisplay == "No transactions to display."
Printed(note, blocks) == [note |-> note, blocks |-> blocks]

\* printTransactions
printTransactions(txs, rate) ==
    IF Len(txs) = 0 THEN Printed(NothingToDisplay, <<>>)
    ELSE Printed("", [i \in 1..Len(txs) |-> printTransaction(txs[i], rate)])

\* A command that prints the history in the order it was returned.
executeTransactions_Unsorted(history, answer) ==
    IF history.err # Nil
    THEN [err |-> "error fetching transactions", out |-> Printed("", <<>>)]
    ELSE IF answer.err # "nil"
    THEN [err |-> "error fetching SOL to EUR rate", out |-> Printed("", <<>>)]
    ELSE [err |-> "nil", out |-> printTransactions(history.txs, answer.rate)]

\* executeTransactions: history is what GetTransactionHistory returns, answer what
\* FetchSOLEURRate returns.
executeTransactions(history, answer) ==
    IF history.err # Nil
    THEN [err |-> "error fetching transactions", out |-> Printed("", <<>>)]
    ELSE LET sorted == SortSlice(<<>>, history.txs)
         IN  IF answer.err # "nil"
             THEN [err |-> "error fetching SOL to EUR rate", out |-> Printed("", <<>>)]
             ELSE [err |-> "nil", out |-> printTransactions(sorted, answer.rate)]

\* The command is about to run: transactions and egErr hold what
\* GetTransactionHistory will return, an error or the events in any order.
CmdInit ==
    /\ publicKeyStr = "ADDR1" /\ sigs = <<>> /\ pc = "cmd" /\ idx = 1 /\ task = <<>>
    /\ sem = [size |-> 1, cur |-> 0] /\ mu = 0 /\ ctx = "live"
    /\ \/ egErr = Nil /\ transactions \in Histories(MaxEvents)
       \/ egErr = Err("failed to fetch transactions", 0) /\ transactions = <<>>
    /\ ret = [err |-> "nil", txs |-> Printed("", <<>>), egErr |-> Nil]
    /\ hist = EmptyBag

ExecuteTransactions ==
    /\ pc = "cmd"
    /\ \E answer \in RateAnswers :
          LET r == executeTransactions([err |-> egErr, txs |-> transactions], answer)
          IN  ret' = [err |-> r.err, txs |-> r.out, egErr |-> egErr]
    /\ pc' = "ran"
    /\ UNCHANGED <<publicKeyStr, sigs, idx, task, sem, mu, transactions, ctx, egErr, hist>>

-----------------------------------------------------------------------------
(* The key text on its own: a key through getSolCLIComptKey and back through *)
(* getPrivateKeyFromSolCLICompStr.                                          *)

\* Bytes with one, two and three decimal digits, the smallest and the largest.
ByteSamples == {0, 1, 9, 10, 99, 100, 128, 255}

RECURSIVE KeysOfLen(_)
KeysOfLen(n) ==
    IF n = 0 THEN {<<>>}
    ELSE {Append(k, b) : k \in KeysOfLen(n - 1), b \in ByteSamples}

\* ed25519.PrivateKey values: never empty (64 bytes in the program).
PrivateKeys == UNION {KeysOfLen(n) : n \in 1..KeyLen}

KeyResult(op, key, text, back) == [op |-> op, key |-> key, text |-> text, back |-> back]

KeyInit ==
    /\ file = NoFile
    /\ res \in {KeyResult("key", k, <<>>, [err |-> "nil", key |-> <<>>]) : k \in PrivateKeys}

\* solanaCliCompatiblekey := getSolCLIComptKey(key)
EncodeKey ==
    /\ res.op = "key"
    /\ res' = [res EXCEPT !.op = "encoded", !.text = getSolCLIComptKey(res.key)]
    /\ UNCHANGED file

\* ret, err := getPrivateKeyFromSolCLICompStr(activeWallet.PrivateKey)
DecodeKey ==
    /\ res.op = "encoded"
    /\ res' = [res EXCEPT !.op = "decoded",
                          !.back = getPrivateKeyFromSolCLICompStr(res.text)]
    /\ UNCHANGED file

-----------------------------------------------------------------------------
(* The specifications.                                                     *)

AggIdle ==
    /\ publicKeyStr = "ADDR1" /\ sigs = <<>> /\ pc = "idle" /\ idx = 1 /\ task = <<>>
    /\ sem = [size |-> 1, cur |-> 0] /\ mu = 0 /\ transactions = <<>> /\ ctx = "live"
    /\ egErr = Nil
    /\ ret = [err |-> Nil, txs |-> <<>>, egErr |-> Nil] /\ hist = EmptyBag

\* The key store, called in any order.
Init == StoreInit /\ AggIdle
Next ==
    \/ DoGetCurrentPrivateKey /\ UNCHANGED aggVars
    \/ DoGetCurrentPublicKey /\ UNCHANGED aggVars
    \/ DoGetPrivateKeyByAlias /\ UNCHANGED aggVars
    \/ DoGetPublicKeyByAlias /\ UNCHANGED aggVars
    \/ DoIsKeyFilePresent /\ UNCHANGED aggVars
    \/ DoPrintAllKeys /\ UNCHANGED aggVars
    \/ DoSetActiveKey /\ UNCHANGED aggVars
    \/ DoWriteKeyToFile /\ UNCHANGED aggVars
Spec == Init /\ [][Next]_vars

\* One call of fetchTransactions.
InitAgg == StoreInit /\ AggInit
NextAgg ==
    \/ FetchStart /\ UNCHANGED storeVars
    \/ GetSignaturesReturns /\ UNCHANGED storeVars
    \/ Deadline /\ UNCHANGED storeVars
    \/ AcquireSlot /\ UNCHANGED storeVars
    \/ AcquireFails /\ UNCHANGED storeVars
    \/ Go /\ UNCHANGED storeVars
    \/ LoopDone /\ UNCHANGED storeVars
    \/ Wait /\ UNCHANGED storeVars
    \/ \E i \in Sigs : TaskGetTransaction(i) /\ UNCHANGED storeVars
    \/ \E i \in Sigs : TaskGetTransactionReturns(i) /\ UNCHANGED storeVars
    \/ \E i \in Sigs : TaskGetBlockTimeReturns(i) /\ UNCHANGED storeVars
    \/ \E i \in Sigs : TaskLock(i) /\ UNCHANGED storeVars
    \/ \E i \in Sigs : TaskAppend(i) /\ UNCHANGED storeVars
    \/ \E i \in Sigs : TaskUnlock(i) /\ UNCHANGED storeVars
    \/ \E i \in Sigs : TaskRelease(i) /\ UNCHANGED storeVars
    \/ \E i \in Sigs : TaskExit(i) /\ UNCHANGED storeVars
    \/ Crash /\ UNCHANGED storeVars
SpecAgg == InitAgg /\ [][NextAgg]_vars

\* The steps of a call that the scheduler and the remote calls' own timeouts make
\* happen: all but the deadline of the call's context.
ProgressAgg ==
    \/ FetchStart \/ GetSignaturesReturns \/ AcquireSlot \/ AcquireFails \/ Go
    \/ LoopDone \/ Wait \/ Crash
    \/ \E i \in Sigs : \/ TaskGetTransaction(i) \/ TaskGetTransactionReturns(i)
                       \/ TaskGetBlockTimeReturns(i) \/ TaskLock(i) \/ TaskAppend(i)
                       \/ TaskUnlock(i) \/ TaskRelease(i) \/ TaskExit(i)
\* One call of fetchTransactions in which every goroutine that can run does and
\* every remote call returns or times out.
SpecAggFair == InitAgg /\ [][NextAgg]_vars /\ WF_vars(ProgressAgg /\ UNCHANGED storeVars)

\* The reading operations of the key store, called in any order on a file found
\* on disk.
InitDoc == DocInit /\ AggIdle
NextDoc ==
    \/ DoGetCurrentPrivateKey /\ UNCHANGED aggVars
    \/ DoGetCurrentPublicKey /\ UNCHANGED aggVars
    \/ DoGetPrivateKeyByAlias /\ UNCHANGED aggVars
    \/ DoGetPublicKeyByAlias /\ UNCHANGED aggVars
    \/ DoIsKeyFilePresent /\ UNCHANGED aggVars
    \/ DoPrintAllKeys /\ UNCHANGED aggVars
SpecDoc == InitDoc /\ [][NextDoc]_vars

\* The key store with the balance lookup, from no file or from a store with
\* balances.
InitBal == BalInit /\ AggIdle
NextBal ==
    \/ DoGetPrivateKeyByAlias /\ UNCHANGED aggVars
    \/ DoSetActiveKey /\ UNCHANGED aggVars
    \/ DoWriteKeyToFile /\ UNCHANGED aggVars
    \/ DoFetchSolBalance /\ UNCHANGED aggVars
SpecBal == InitBal /\ [][NextBal]_vars

\* One run of the transactions command.
InitCmd == StoreInit /\ CmdInit
NextCmd == ExecuteTransactions /\ UNCHANGED storeVars
SpecCmd == InitCmd /\ [][NextCmd]_vars

\* The key store on a file without the wallets mapping.
InitMapless == MaplessInit /\ AggIdle
SpecMapless == InitMapless /\ [][NextBal]_vars

\* The command layer over the listing: address --all and the wallet selection.

\* The aliases a key file may hold under them, and the string of a text.
AliasNames == {KeyOrder[i] : i \in 1..Len(KeyOrder)}
StringOf(text) ==
    IF \E a \in AliasNames : Chars(a) = text
    THEN CHOOSE a \in AliasNames : Chars(a) = text
    ELSE "?"

\* strings.Split(ali, " ")[0]
actualAlias(ali) == StringOf(Split(ali, " ")[1])

\* addressMap[actualAlias]: the zero value for a key the map does not have.
Lookup(addressMap, key) == IF key \in DOMAIN addressMap THEN addressMap[key] ELSE ""

\* displayAddress with --all: a line for each entry, the alias taken from it and
\* the address found under that alias.
displayAddress(f, fault, answer, order) ==
    LET r == PrintAllKeys(f, fault, answer, order)
    IN  IF r.err # "nil" THEN [err |-> "failed to retrieve wallets", val |-> <<>>]
        ELSE [err |-> "nil",
              val |-> [i \in 1..Len(r.val[1]) |->
                          [alias |-> actualAlias(r.val[1][i]),
                           address |-> Lookup(r.val[2], actualAlias(r.val[1][i]))]]]

\* selectExistingWallet: choice is the entry the user picks, 0 when the prompt
\* fails. io.fault1 fails the read of the listing, io.fault2 that of SetActiveKey,
\* io.n is how far its write gets, fault3 fails the read of the address.
selectExistingWallet(f, io, fault3, answer, order, choice) ==
    LET l == PrintAllKeys(f, io.fault1, answer, order)
    IN  IF l.err # "nil"
        THEN [err |-> "failed to retrieve existing wallets", val |-> "", file |-> f]
        ELSE IF choice \notin 1..Len(l.val[1])
        THEN [err |-> "failed to get user choice", val |-> "", file |-> f]
        ELSE LET s == SetActiveKey(f, io.fault2, actualAlias(l.val[1][choice]), io.n)
                 a == GetCurrentPublicKey(s.file, fault3)
             IN  IF s.err # "nil"
                 THEN [err |-> "failed to switch to existing wallet", val |-> "",
                       file |-> s.file]
                 ELSE IF a.err # "nil"
                 THEN [err |-> "failed to get the current wallet address", val |-> "",
                       file |-> s.file]
                 ELSE [err |-> "nil", val |-> a.val, file |-> s.file]

\* The wallet a user created under alias, and the key files the program wrote for
\* users who created one to three of them.
CreatedWallet(alias) ==
    IF alias = "a" THEN Wallet(getSolCLIComptKey(KeyOf(7)), 0, "PUBKEYA")
    ELSE IF alias = "b" THEN Wallet(getSolCLIComptKey(KeyOf(254)), 0, "PUBKEYB")
    ELSE Wallet(getSolCLIComptKey(KeyOf(100)), 0, "PUBKEYC")
CreatedStores ==
    {Marshal(WalletData(active, [a \in S |-> CreatedWallet(a)], FALSE)) :
        S \in (SUBSET {"a", "b", SpacedAlias}) \ {{}}, active \in {"a", "b", SpacedAlias}}
ListInit ==
    /\ file \in {FileOf(b) : b \in {c \in CreatedStores : Unmarshal(c).data.ActiveAlias \in DOMAIN Unmarshal(c).data.Wallets}}
    /\ res = Result("none", "", NoWallet, TRUE, "nil", NoVal, NoFile)

DoDisplayAddress ==
    \E fault \in BOOLEAN, answer \in RateAnswers,
       order \in Orders(DOMAIN readWalletData(file, FALSE).data.Wallets) :
        LET r == displayAddress(file, fault, answer, order)
        IN  /\ res' = Result("displayAddress", "", answer, ~fault, r.err, r.val, file)
            /\ UNCHANGED file

\* res.alias is the alias of the wallet whose entry the user picked.
DoSelectExistingWallet ==
    \E io \in IOCases, fault3 \in BOOLEAN, answer \in RateAnswers,
       order \in Orders(DOMAIN readWalletData(file, FALSE).data.Wallets),
       choice \in 0..MaxAliases :
        /\ choice <= Len(order)
        /\ LET r == selectExistingWallet(file, io, fault3, answer, order, choice)
           IN  /\ file' = r.file
               /\ res' = Result("selectExistingWallet",
                                IF choice = 0 THEN "" ELSE order[choice], answer,
                                Clean(io) /\ ~fault3, r.err, r.val, file)

InitList == ListInit /\ AggIdle
NextList ==
    \/ DoDisplayAddress /\ UNCHANGED aggVars
    \/ DoSelectExistingWallet /\ UNCHANGED aggVars
SpecList == InitList /\ [][NextList]_vars

\* The send command: pkg/wallet/wallet.go, SendFunds and ConvertEurToLamports.

\* decimal.NewFromString on an amount of at most two decimals: an optional sign,
\* digits and an optional fraction; the value is counted in hundredths.
NewFromString(s) ==
    LET signed == s # <<>> /\ Head(s) \in {"+", "-"}
        body == IF signed THEN Tail(s) ELSE s
        parts == Split(body, ".")
        whole == parts[1]
        frac == IF Len(parts) >= 2 THEN parts[2] ELSE <<>>
        cents == SubSeq(frac \o <<"0", "0">>, 1, 2)
    IN  IF \/ Len(parts) > 2 \/ Len(whole) + Len(frac) = 0
           \/ \E i \in 1..Len(whole) : ~IsDigit(whole[i])
           \/ \E i \in 1..Len(frac) : ~IsDigit(frac[i])
        THEN [err |-> "can't convert to decimal", num |-> 0]
        ELSE [err |-> "nil",
              num |-> (IF signed /\ Head(s) = "-" THEN 0 - 1 ELSE 1)
                      * (100 * DigitsVal(whole, 0) + DigitsVal(cents, 0))]

\* The quotient q with remainder rem over r, carried on for steps more decimal
\* digits: the digits of (q + rem / r) * 10^steps before the point.
RECURSIVE ShiftDiv(_, _, _, _)
ShiftDiv(q, rem, r, steps) ==
    IF steps = 0 THEN q
    ELSE ShiftDiv(q * 10 + ((rem * 10) \div r), (rem * 10) % r, r, steps - 1)

\* The power of ten in decimal.NewFromInt(1_000_000_000).
LamportDigits == 9

\* ConvertEurToLamports: eurAmount.Div(rate).Mul(10^9).IntPart(). Div panics on a
\* zero divisor; it rounds the quotient at its 16th decimal, which for the rates of
\* the model never reaches the 9 decimals that are kept; IntPart cuts towards zero.
ConvertEurToLamports(eurStr, eurToSolRate) ==
    LET eurAmount == NewFromString(eurStr)
        mag == IF eurAmount.num < 0 THEN 0 - eurAmount.num ELSE eurAmount.num
    IN  IF eurAmount.err # "nil"
        THEN [err |-> "failed to parse EUR string", lamports |-> 0]
        ELSE IF eurToSolRate = 0
        THEN [err |-> "panic: decimal division by 0", lamports |-> 0]
        ELSE [err |-> "nil",
              lamports |-> (IF eurAmount.num < 0 THEN 0 - 1 ELSE 1)
                           * ShiftDiv(mag \div eurToSolRate, mag % eurToSolRate,
                                      eurToSolRate, LamportDigits)]

\* uint64(x) of an int64 x, as four limbs of 16 bits, the lowest first: the two's
\* complement of x when x is negative.
LimbBase == 65536
RECURSIVE ShiftRight(_, _)
ShiftRight(x, limbs) == IF limbs = 0 THEN x ELSE ShiftRight(x \div LimbBase, limbs - 1)
Uint64(x) == [i \in 1..4 |-> ShiftRight(x, i - 1) % LimbBase]

\* What SendFunds hands back: whether a transaction was built, whether it was
\* submitted, and the amount of its transfer instruction.
Sent(err, built, submitted, lamports) ==
    [err |-> err, built |-> built, submitted |-> submitted,
     lamports |-> lamports, amount |-> IF built THEN Uint64(lamports) ELSE <<>>]

\* SendFunds: net is the step of the network that fails, "none" when none does.
SendFunds(f, fault, amount, recipient, answer, net) ==
    LET k == GetCurrentPrivateKey(f, fault)
        c == ConvertEurToLamports(amount, answer.rate)
    IN  IF net = "connect" THEN Sent("ws connect failed", FALSE, FALSE, 0)
        ELSE IF k.err # "nil"
        THEN Sent("failed to get current private key", FALSE, FALSE, 0)
        ELSE IF base58Decode(recipient).err # "nil"
        THEN Sent("panic: invalid base58 public key", FALSE, FALSE, 0)
        ELSE IF answer.err # "nil" THEN Sent(answer.err, FALSE, FALSE, 0)
        ELSE IF c.err # "nil" THEN Sent(c.err, FALSE, FALSE, 0)
        ELSE IF net = "blockhash"
        THEN Sent("get recent blockhash failed", FALSE, FALSE, c.lamports)
        ELSE IF net = "confirm"
        THEN Sent("send and confirm failed", TRUE, TRUE, c.lamports)
        ELSE Sent("nil", TRUE, TRUE, c.lamports)

\* The amounts a user types, the recipients, the rates fetchSOLEURRate answers,
\* among them a rate of zero, and the steps of the network.
EurTexts == {<<"1">>, <<"0", ".", "5">>, <<"2", ".", "5", "0">>, <<"-", "1">>,
             <<"0">>, <<"-", "0", ".", "5">>, <<"x">>, <<>>}
Recipients == {<<"A", "D", "R", "2">>, <<"0", "x">>}
SendRates == RateAnswers \cup {[err |-> "nil", rate |-> 0]}
NetFailures == {"none", "connect", "blockhash", "confirm"}

\* The send command with an amount, a recipient, a rate answer and a network
\* outcome out of the given sets.
SendFundsWith(amounts, recipients, answers, nets) ==
    \E fault \in BOOLEAN, amount \in amounts, recipient \in recipients,
       answer \in answers, net \in nets :
        LET r == SendFunds(file, fault, amount, recipient, answer, net)
        IN  /\ res' = [op |-> "SendFunds", eur |-> amount, recipient |-> recipient,
                       answer |-> answer, clean |-> ~fault /\ net = "none",
                       err |-> r.err, val |-> r, before |-> file]
            /\ UNCHANGED file

DoSendFunds == SendFundsWith(EurTexts, Recipients, SendRates, NetFailures)

\* The send command on a key file with an active wallet.
InitSend == BalInit /\ AggIdle
NextSend == DoSendFunds /\ UNCHANGED aggVars
SpecSend == InitSend /\ [][NextSend]_vars

\* A run of the program that makes no call of fetchTransactions: nothing of an
\* earlier run's call is left.
NoFetch ==
    /\ publicKeyStr' = "ADDR1" /\ sigs' = <<>> /\ pc' = "idle" /\ idx' = 1 /\ task' = <<>>
    /\ sem' = [size |-> 1, cur |-> 0] /\ mu' = 0 /\ transactions' = <<>> /\ ctx' = "live"
    /\ egErr' = Nil
    /\ ret' = [err |-> Nil, txs |-> <<>>, egErr |-> Nil] /\ hist' = EmptyBag

\* The ledgers a history call of the facade meets: one transfer, or one with a
\* short payload.
HistoryLedgers == {<<TxSend>>, <<TxShort>>}

\* WalletConfig.GetTransactionHistory up to its call of fetchTransactions: the
\* address is the one of the wallet in memory or, with none, the one the key store
\* keeps for the active wallet; fetchTransactions then runs with it, step by step.
DoGetTransactionHistory ==
    \E fault \in BOOLEAN, w \in LoadedWallets, ledger \in HistoryLedgers :
        LET r == IF w # NoWallet THEN [err |-> "nil", val |-> PublicKeyOf(w.key)]
                 ELSE GetCurrentPublicKey(file, fault)
        IN  /\ res' = Result("GetTransactionHistory", "", w, ~fault,
                             IF r.err # "nil" THEN "failed to get current private key"
                             ELSE "nil",
                             <<r.val>>, file)
            /\ UNCHANGED file
            /\ IF r.err # "nil" THEN NoFetch
               ELSE /\ publicKeyStr' = r.val
                    /\ sigs' = ledger
                    /\ pc' = "start"
                    /\ idx' = 1
                    /\ task' = [i \in 1..Len(ledger) |-> NewTask]
                    /\ sem' = [size |-> 1, cur |-> 0]
                    /\ mu' = 0
                    /\ transactions' = <<>>
                    /\ ctx' = "live"
                    /\ egErr' = Nil
                    /\ ret' = [err |-> Nil, txs |-> <<>>, egErr |-> Nil]
                    /\ hist' = EmptyBag

\* No call of fetchTransactions is under way: a command runs to its end before the
\* next one starts.
AtRest == pc \in {"idle", "returned", "crashed"}

\* The key file as the commands find it: a store the program wrote, with two
\* wallets, whose balances were edited since.
InitFacade ==
    /\ file = FileOf(EditedStore("a", <<"a", "b">>))
    /\ res = Result("none", "", NoWallet, TRUE, "nil", NoVal, NoFile)
    /\ AggIdle

\* The key store and the facade over it, one command after the other. Each command
\* is a run of the program of its own: it starts with nothing left of an earlier
\* call of fetchTransactions.
NextFacade ==
    \/ AtRest /\ DoGetCurrentPrivateKey /\ NoFetch
    \/ AtRest /\ DoGetCurrentPublicKey /\ NoFetch
    \/ AtRest /\ DoGetPrivateKeyByAlias /\ NoFetch
    \/ AtRest /\ DoGetPublicKeyByAlias /\ NoFetch
    \/ AtRest /\ DoIsKeyFilePresent /\ NoFetch
    \/ AtRest /\ DoPrintAllKeys /\ NoFetch
    \/ AtRest /\ DoSetActiveKey /\ NoFetch
    \/ AtRest /\ DoWriteKeyToFile /\ NoFetch
    \/ AtRest /\ DoFetchSolBalance /\ NoFetch
    \/ AtRest /\ SendFundsWith({<<"1">>, <<"x">>}, Recipients, RateAnswers, {"none", "confirm"})
              /\ NoFetch
    \/ AtRest /\ DoGetTransactionHistory
    \/ FetchStart /\ UNCHANGED storeVars
    \/ GetSignaturesReturns /\ UNCHANGED storeVars
    \/ Deadline /\ UNCHANGED storeVars
    \/ AcquireSlot /\ UNCHANGED storeVars
    \/ AcquireFails /\ UNCHANGED storeVars
    \/ Go /\ UNCHANGED storeVars
    \/ LoopDone /\ UNCHANGED storeVars
    \/ Wait /\ UNCHANGED storeVars
    \/ \E i \in Sigs : TaskGetTransaction(i) /\ UNCHANGED storeVars
    \/ \E i \in Sigs : TaskGetTransactionReturns(i) /\ UNCHANGED storeVars
    \/ \E i \in Sigs : TaskGetBlockTimeReturns(i) /\ UNCHANGED storeVars
    \/ \E i \in Sigs : TaskLock(i) /\ UNCHANGED storeVars
    \/ \E i \in Sigs : TaskAppend(i) /\ UNCHANGED storeVars
    \/ \E i \in Sigs : TaskUnlock(i) /\ UNCHANGED storeVars
    \/ \E i \in Sigs : TaskRelease(i) /\ UNCHANGED storeVars
    \/ \E i \in Sigs : TaskExit(i) /\ UNCHANGED storeVars
    \/ Crash /\ UNCHANGED storeVars
SpecFacade == InitFacade /\ [][NextFacade]_vars

\* One key encoded and decoded.
InitKey == KeyInit /\ AggIdle
NextKey ==
    \/ EncodeKey /\ UNCHANGED aggVars
    \/ DecodeKey /\ UNCHANGED aggVars
SpecKey == InitKey /\ [][NextKey]_vars

\* One call of decodeSystemTransfer.
InitDecode == StoreInit /\ DecodeInit
NextDecode == Decode /\ UNCHANGED storeVars
SpecDecode == InitDecode /\ [][NextDecode]_vars

-----------------------------------------------------------------------------
(* Properties of the key store.                                            *)

\* The store a file holds, when it holds one.
Parses(f) == f.exists /\ Unmarshal(f.bytes).err = "nil"
Stored(f) == Unmarshal(f.bytes).data
StoredAliases(f) == DOMAIN Stored(f).Wallets

\* The file a mutation leaves when all of its I/O goes through.
Intended ==
    IF res.op = "WriteKeyToFile"
    THEN WriteKeyToFile(res.before, FALSE, FALSE, res.alias, res.wallet.key,
                        res.wallet.address, MaxBytes).file
    ELSE SetActiveKey(res.before, FALSE, res.alias, MaxBytes).file

\* C1 (as claimed): after WriteKeyToFile or SetActiveKey, whether it succeeded or
\* failed, the file holds the complete old contents or the complete new ones.
C1_AllOrNothing ==
    res.op \in {"WriteKeyToFile", "SetActiveKey"} =>
        file = res.before \/ file = Intended

\* C2: WriteKeyToFile with an alias the store already holds returns an error, the
\* "alias already exists" one whenever the store was read, and leaves every byte of
\* the file as it was.
C2_DuplicateAliasRejected ==
    (res.op = "WriteKeyToFile" /\ Parses(res.before)
        /\ res.alias \in StoredAliases(res.before)) =>
        /\ file = res.before
        /\ res.err # "nil"
        /\ res.clean => res.err = "alias already exists"

C2_Witness ==
    /\ res.op = "WriteKeyToFile" /\ Parses(res.before)
    /\ res.alias \in StoredAliases(res.before)
    /\ res.err = "alias already exists"
    /\ Cardinality(StoredAliases(res.before)) >= 2
    /\ Stored(res.before).ActiveAlias # res.alias
    /\ Stored(res.before).Wallets[res.alias].PublicKey # res.wallet.address

\* C3: starting from a missing file, whenever the file holds a store its activeAlias
\* is empty or is the alias of one of its wallets.
C3_ActiveAliasExists ==
    Parses(file) =>
        Stored(file).ActiveAlias = "" \/ Stored(file).ActiveAlias \in StoredAliases(file)

C3_Witness ==
    /\ res.op = "SetActiveKey" /\ res.err = "alias does not exist"
    /\ Parses(file) /\ Stored(file).ActiveAlias # ""
    /\ Stored(file).ActiveAlias \in StoredAliases(file)
    /\ res.alias \notin StoredAliases(file)

\* C4: right after a successful WriteKeyToFile(alias, key, address) the stored
\* activeAlias is alias and GetCurrentPublicKey returns address.
C4_NewWalletIsActive ==
    (res.op = "WriteKeyToFile" /\ res.err = "nil") =>
        /\ Parses(file)
        /\ Stored(file).ActiveAlias = res.alias
        /\ GetCurrentPublicKey(file, FALSE) = [err |-> "nil", val |-> res.wallet.address]

C4_Witness ==
    /\ res.op = "WriteKeyToFile" /\ res.err = "nil"
    /\ Parses(res.before)
    /\ Stored(res.before).ActiveAlias \in StoredAliases(res.before)
    /\ Stored(res.before).ActiveAlias # res.alias
    /\ GetCurrentPublicKey(res.before, FALSE).val # res.wallet.address
    /\ GetCurrentPublicKey(file, FALSE).val = res.wallet.address

\* C5: on a store that holds no wallet under alias, SetActiveKey(alias) returns an
\* error ("alias does not exist" whenever the store was read) and leaves the file as it
\* was; on a store that holds one, and with its I/O going through, it returns nil and
\* the stored activeAlias is alias, the wallets being the same.
C5_SetActive ==
    (res.op = "SetActiveKey" /\ Parses(res.before)) =>
        /\ res.alias \notin StoredAliases(res.before) =>
              /\ file = res.before
              /\ res.err # "nil"
              /\ res.clean => res.err = "alias does not exist"
        /\ (res.alias \in StoredAliases(res.before) /\ res.clean) =>
              /\ res.err = "nil"
              /\ Parses(file)
              /\ Stored(file).ActiveAlias = res.alias
              /\ Stored(file).Wallets = Stored(res.before).Wallets

C5_Witness ==
    /\ res.op = "SetActiveKey" /\ res.err = "nil"
    /\ Stored(res.before).ActiveAlias # res.alias
    /\ Stored(file).ActiveAlias = res.alias
    /\ Cardinality(StoredAliases(file)) >= 2

\* C6 (as claimed): on a store whose activeAlias is empty or names none of its
\* wallets, GetCurrentPrivateKey and GetCurrentPublicKey fail with
\* ErrActiveWalletNotFound.
C6_NoActiveWallet ==
    (res.op \in {"GetCurrentPrivateKey", "GetCurrentPublicKey"} /\ res.clean
        /\ Parses(res.before)
        /\ (Stored(res.before).ActiveAlias = ""
            \/ Stored(res.before).ActiveAlias \notin StoredAliases(res.before))) =>
        res.err = "ErrActiveWalletNotFound"

-----------------------------------------------------------------------------
(* Properties of fetchTransactions.                                        *)

\* The instructions of the ledger that are system transfers: <<signature, index>>.
IsSystemTransfer(tx, in) ==
    /\ in.ProgramIDIndex < Len(tx.AccountKeys)
    /\ tx.AccountKeys[in.ProgramIDIndex + 1] = systemProgramIDStr
    /\ Len(in.Data) >= 4
    /\ in.Data[1] = 2 /\ in.Data[2] = 0 /\ in.Data[3] = 0 /\ in.Data[4] = 0
Transfers ==
    {t \in UNION {{<<i, j>> : j \in 1..Len(sigs[i].Instructions)} : i \in Sigs} :
        IsSystemTransfer(sigs[t[1]], sigs[t[1]].Instructions[t[2]])}

\* The event of the transfer t: sender, receiver, amount, the block time of the
\* signature's slot, and whether the queried address sent it.
EventOf(t) ==
    LET tx == sigs[t[1]]
        in == tx.Instructions[t[2]]
        sender == tx.AccountKeys[in.Accounts[1] + 1]
        d == in.Data
        amount == d[5] + 256 * (d[6] + 256 * (d[7] + 256 * (d[8] + 256 * (d[9]
                    + 256 * (d[10] + 256 * (d[11] + 256 * d[12]))))))
    IN  Transaction(amount, sender,
                    tx.AccountKeys[in.Accounts[2] + 1], BlockTimeOf(SlotOf(t[1])),
                    sender = publicKeyStr)

Returned == pc = "returned"
Succeeded == Returned /\ ret.err = Nil

\* C7 (as claimed): when fetchTransactions returns without error every goroutine is done and the
\* result holds each transfer's event exactly as many times as there are transfers
\* with that event, and nothing else, in whatever order the goroutines ran; with no
\* signatures the call returns an empty result and no error.
C7_ExactlyOneEventPerTransfer ==
    /\ Succeeded =>
          /\ \A i \in Sigs : task[i].pc = "done"
          /\ Len(ret.txs) = Cardinality(Transfers)
          /\ \A k \in 1..Len(ret.txs) :
                Cardinality({m \in 1..Len(ret.txs) : ret.txs[m] = ret.txs[k]})
                    = Cardinality({t \in Transfers : EventOf(t) = ret.txs[k]})
    /\ (Returned /\ sigs = <<>>
          /\ ret.err.what \notin {"invalid public key", "get signatures for address"}) =>
          ret = [err |-> Nil, txs |-> <<>>, egErr |-> Nil]

\* A goroutine that failed: its function returned an error (a remote call failed or
\* timed out, the transaction did not decode), or it panicked in the decoder and
\* never returned.
TaskFailed(i) == task[i].err # Nil \/ task[i].pc \in {"unwind", "unwound", "panicked"}

\* C8 (as claimed): once a goroutine has failed, in a remote call, by its timeout or
\* in the decoder, fetchTransactions returns an error and no result, whatever the
\* other goroutines collected.
C8_FailureIsFatal ==
    (Returned /\ \E i \in Sigs : TaskFailed(i)) =>
        ret.err # Nil /\ ret.txs = <<>>

\* C9 (as claimed): when a goroutine had failed by the time fetchTransactions returns,
\* the error returned is the one the errgroup kept, the first failure; the only
\* other error allowed here is the deadline of the call's own context, which no
\* failure causes.
C9_FirstErrorReturned ==
    (Returned /\ ret.egErr # Nil) =>
        ret.err = ret.egErr \/ ret.err = Err("failed to acquire semaphore", 0 - 1)

\* C10 (as claimed): once the first failure has canceled the errgroup's context no
\* slot is taken and no remote call is issued, neither by a goroutine that had not
\* started nor by one that was in flight.
C10_NothingAfterCancel ==
    \A c \in BagToSet(hist) : c.call \in {"Acquire", "GetTransaction", "GetBlockTime"} =>
        c.ctx # "canceled"

\* The goroutines in flight: started by eg.Go, their function not yet returned and
\* its deferred sem.Release not yet run.
InFlightPcs == {"spawned", "inGetTransaction", "inGetBlockTime", "lock", "append",
                "unlock", "release", "unwind"}
InFlight == {i \in Sigs : task[i].pc \in InFlightPcs}

\* C11: at every moment the number of goroutines in flight is at most the size the
\* semaphore was created with, however many signatures there are.
C11_InFlightWithinBudget == Cardinality(InFlight) <= sem.size

\* The budget is used up while a further signature waits for a slot.
C11_Witness ==
    /\ Cardinality(InFlight) = sem.size
    /\ pc = "loop" /\ idx <= Len(sigs)

\* C12 (as claimed): a call whose signature lookup answered and none of whose
\* goroutines failed, by an error of a remote call, by its own timeout or in the
\* decoder, returns success, however long the call as a whole has taken and however
\* many signatures wait for a slot.
C12_TaskTimeoutsIndependent ==
    (/\ Returned
     /\ ret.err.what \notin {"invalid public key", "get signatures for address"}
     /\ \A i \in Sigs : ~TaskFailed(i)) => ret.err = Nil

\* C13: the slots held are those of the goroutines in flight, plus the one just
\* acquired for the goroutine eg.Go is about to start; a goroutine that returned,
\* with or without an error, holds none, and all are free once every goroutine is
\* done. A goroutine that panics gives its slot back through the same deferred call.
C13_SlotsMatchTasks ==
    /\ sem.cur = Cardinality(InFlight) + (IF pc = "go" THEN 1 ELSE 0)
    /\ (\A i \in Sigs : task[i].pc \in {"done", "panicked"}) => sem.cur = 0

\* A goroutine that failed and one that succeeded have both exited, all slots free.
C13_Witness ==
    /\ Len(sigs) >= 2 /\ sem.cur = 0
    /\ \A i \in Sigs : task[i].pc = "done"
    /\ \E i \in Sigs : task[i].err # Nil
    /\ \E i \in Sigs : task[i].err = Nil /\ task[i].txList # <<>>

\* C14: the mutex is held by exactly the goroutine that is at its append or at the
\* deferred Unlock after it, so by at most one, never by one that is in a remote
\* call or decoding, and by none that has gone on to return.
C14_AppendExclusive ==
    /\ \A i \in Sigs : (mu = i) <=> (task[i].pc \in {"append", "unlock"})
    /\ Cardinality({i \in Sigs : task[i].pc \in {"append", "unlock"}}) <= 1
    /\ mu \in {0} \cup Sigs
    /\ (\A i \in Sigs : task[i].pc = "done") => mu = 0

\* One goroutine holds the mutex while another waits at Lock.
C14_Witness ==
    \E i, j \in Sigs : /\ i # j /\ mu = i /\ task[i].pc = "append"
                        /\ task[j].pc = "lock"

-----------------------------------------------------------------------------
(* Properties of decodeSystemTransfer.                                     *)

\* The instruction names a program among the transaction's account keys, as every
\* instruction of a transaction the ledger holds does.
NamesProgram(tx, in) == in.ProgramIDIndex < Len(tx.AccountKeys)
IsSystemInstruction(tx, in) ==
    NamesProgram(tx, in) /\ tx.AccountKeys[in.ProgramIDIndex + 1] = systemProgramIDStr

\* The minimum payload: 4 bytes of type for an instruction of the system program;
\* for a transfer 12 bytes and two accounts, both among the account keys.
ShortPayload(tx, in) ==
    /\ IsSystemInstruction(tx, in)
    /\ \/ Len(in.Data) < 4
       \/ /\ IsSystemTransfer(tx, in)
          /\ \/ Len(in.Data) < 12
             \/ Len(in.Accounts) < 2
             \/ \E a \in 1..2 : in.Accounts[a] >= Len(tx.AccountKeys)
HasShortPayload(tx) == \E j \in 1..Len(tx.Instructions) : ShortPayload(tx, tx.Instructions[j])
WellFormed(tx) ==
    /\ \A j \in 1..Len(tx.Instructions) : NamesProgram(tx, tx.Instructions[j])
    /\ ~HasShortPayload(tx)

\* The event of instruction j of tx.
EventAt(tx, j, timestamp, address) ==
    LET in == tx.Instructions[j]
        d == in.Data
    IN  [Amount |-> d[5] + 256 * (d[6] + 256 * (d[7] + 256 * (d[8] + 256 * (d[9]
                      + 256 * (d[10] + 256 * (d[11] + 256 * d[12])))))),
         From |-> tx.AccountKeys[in.Accounts[1] + 1],
         To |-> tx.AccountKeys[in.Accounts[2] + 1],
         Timestamp |-> timestamp,
         IsSender |-> (tx.AccountKeys[in.Accounts[1] + 1] = address)]

\* The events expected of tx: one per system transfer, in the order of the
\* instructions.
ExpectedEvents(tx, timestamp, address) ==
    LET Matches(j) == IsSystemTransfer(tx, tx.Instructions[j])
        m == SelectSeq([j \in 1..Len(tx.Instructions) |-> j], Matches)
    IN  [k \in 1..Len(m) |-> EventAt(tx, m[k], timestamp, address)]

Decoded == pc \in {"decoded", "crashed"}

\* C15: for a transaction whose instructions all name a program and whose
\* system-program instructions carry the minimum payload, decodeSystemTransfer
\* returns no error and exactly one event per instruction of the system program
\* with the 4-byte little-endian type 2, none for any other: sender the first
\* account, receiver the second, the 8-byte little-endian amount, the block time,
\* and IsSender exactly when the sender is the queried address. With no such
\* instruction it returns no event and no error.
C15_OneEventPerTransfer ==
    (Decoded /\ WellFormed(sigs[1])) =>
        /\ pc = "decoded"
        /\ task[1].err = Err("nil", 1)
        /\ task[1].txList =
              ExpectedEvents(sigs[1], BlockTimeOf(task[1].slot), publicKeyStr)

\* A transaction with an instruction of another type and two transfers, one sent
\* and one received by the queried address.
C15_Witness ==
    /\ pc = "decoded" /\ WellFormed(sigs[1])
    /\ Len(sigs[1].Instructions) > Len(task[1].txList) /\ Len(task[1].txList) = 2
    /\ task[1].txList[1].IsSender /\ ~task[1].txList[2].IsSender

\* C16 (as claimed): a transaction with a system-program instruction below the
\* minimum payload makes the decoder return an error, and the decoder never
\* crashes.
C16_ShortPayloadIsError ==
    (Decoded /\ HasShortPayload(sigs[1])) =>
        pc = "decoded" /\ task[1].err # Err("nil", 1)

-----------------------------------------------------------------------------
(* Properties of the key text.                                             *)

\* C17: for every key, decoding the text that encoding it produced returns no error
\* and the key itself: the same length, the same bytes in the same order.
C17_KeyRoundTrip ==
    res.op = "decoded" => res.back = [err |-> "nil", key |-> res.key]

\* A key of several bytes, among them the largest and the smallest, came back.
C17_Witness ==
    /\ res.op = "decoded" /\ Len(res.key) >= 2
    /\ res.key[1] = 255 /\ res.key[2] = 0
    /\ res.back.key = res.key

-----------------------------------------------------------------------------
(* Properties of the key store on a documented file.                       *)

\* The alias the documented file b names as active, when it keeps that wallet.
DocumentedActive(b) == b[2].a
NamesStoredWallet(b) == \E i \in 1..Len(b) : b[i].t = "entry" /\ b[i].a = DocumentedActive(b)

\* C18 (as claimed): on a file in the documented format whose activeAlias names one
\* of its wallets, GetCurrentPrivateKey succeeds and returns that wallet's key, the
\* bytes of its textual array.
C18_DocumentedFormatReadable ==
    (/\ res.op = "GetCurrentPrivateKey" /\ res.clean
     /\ res.before.exists /\ res.before.bytes \in DocumentedStores
     /\ NamesStoredWallet(res.before.bytes)) =>
        /\ res.err = "nil"
        /\ res.val = base58Encode(DocumentedKey(DocumentedActive(res.before.bytes)))

-----------------------------------------------------------------------------
(* Properties of PrintAllKeys.                                             *)

Listed == res.op = "PrintAllKeys"

\* C19: when the rate lookup fails PrintAllKeys returns an error, neither entries
\* nor a map, and leaves the file as it was.
C19_NoListingWithoutRate ==
    (Listed /\ res.wallet.err # "nil") =>
        /\ res.err # "nil"
        /\ res.val = NoListing
        /\ file = res.before

\* The lookup failed on a readable store that keeps wallets.
C19_Witness ==
    /\ Listed /\ res.clean /\ res.wallet.err # "nil"
    /\ Parses(res.before) /\ StoredAliases(res.before) # {}
    /\ res.err = "error fetching SOL to EUR rate"

\* txt is the decimal text, with two decimals, of product hundredths of a hundredth
\* rounded to the nearest hundredth.
IsAmount(txt, product) ==
    /\ Len(txt) >= 4 /\ txt[Len(txt) - 2] = "."
    /\ \A i \in (1..Len(txt)) \ {Len(txt) - 2} : IsDigit(txt[i])
    /\ (txt[1] = "0" => Len(txt) = 4)
    /\ LET v == 100 * DigitsVal(SubSeq(txt, 1, Len(txt) - 3), 0)
                 + DigitsVal(SubSeq(txt, Len(txt) - 1, Len(txt)), 0)
       IN  100 * v - 50 <= product /\ product < 100 * v + 50

\* e is the entry of the wallet stored under alias a in d: the alias, the marker when
\* a is the active alias and only then, and the balance times the rate.
IsEntryOf(e, a, d, rate) ==
    LET head == (IF a = "" THEN <<>> ELSE <<a>>)
                \o (IF a = d.ActiveAlias
                    THEN <<" ", "(", "A", "c", "t", "i", "v", "e", ")">> ELSE <<>>)
                \o <<" ", "/", "/", " ", "B", "A", "L", " ", "-", " ", "(", "€", " ">>
    IN  /\ Len(e) > Len(head) + 1
        /\ SubSeq(e, 1, Len(head)) = head
        /\ e[Len(e)] = ")"
        /\ IsAmount(SubSeq(e, Len(head) + 1, Len(e) - 1), d.Wallets[a].Balance * rate)

\* C20: a successful PrintAllKeys returns as many entries as the store has wallets,
\* for each wallet exactly one entry that is its own (marked active exactly when
\* the wallet is, annotated with its balance times the rate to two decimals), and
\* a map that gives, for the alias of each entry, the wallet's public key.
C20_ListingComplete ==
    (Listed /\ res.err = "nil") =>
        LET d == Stored(res.before)
            entries == res.val[1]
            keyMap == res.val[2]
        IN  /\ Len(entries) = Cardinality(DOMAIN d.Wallets)
            /\ \A a \in DOMAIN d.Wallets :
                  Cardinality({k \in 1..Len(entries) :
                                  IsEntryOf(entries[k], a, d, res.wallet.rate)}) = 1
            /\ DOMAIN keyMap = DOMAIN d.Wallets
            /\ \A a \in DOMAIN d.Wallets : keyMap[a] = d.Wallets[a].PublicKey

\* The store with wallet a, its balance edited to 2, and the rate 5.00.
C20_Witness ==
    /\ Listed /\ res.err = "nil" /\ res.wallet.rate = 500
    /\ res.before = FileOf(EditedStore("a", <<"a">>))
    /\ res.val[1] = << <<"a", " ", "(", "A", "c", "t", "i", "v", "e", ")", " ", "/", "/",
                        " ", "B", "A", "L", " ", "-", " ", "(", "€", " ",
                        "1", "0", ".", "0", "0", ")">> >>
    /\ res.val[2]["a"] = "PUBKEYA"

-----------------------------------------------------------------------------
(* Properties of the key store: missing and unparsable files, lookups by    *)
(* alias.                                                                  *)

\* C21: on a missing file IsKeyFilePresent returns false and no error, and
\* WriteKeyToFile, its write going through, returns no error and leaves a store that
\* holds the new wallet alone, under its alias, which is the active one. A read that
\* fails otherwise makes IsKeyFilePresent return an error; it makes WriteKeyToFile
\* return an error, the one of the read that failed, and leave the file as it was,
\* whether the file was there or not; and WriteKeyToFile returns these errors in no
\* other case.
C21_MissingFileIsNoError ==
    /\ (res.op = "IsKeyFilePresent" /\ res.clean /\ ~res.before.exists) =>
          res.err = "nil" /\ res.val = <<"false">>
    /\ (res.op = "IsKeyFilePresent" /\ ~res.clean) =>
          res.err = "error accessing file"
    /\ (res.op = "WriteKeyToFile" /\ res.clean /\ ~res.before.exists) =>
          /\ res.err = "nil"
          /\ Parses(file)
          /\ Stored(file).ActiveAlias = res.alias
          /\ StoredAliases(file) = {res.alias}
          /\ Stored(file).Wallets[res.alias] =
                Wallet(getSolCLIComptKey(res.wallet.key), 0, res.wallet.address)
    /\ (res.op = "WriteKeyToFile" /\ res.fault1) =>
          /\ res.err = "error checking if keys are already present"
          /\ file = res.before
    /\ (res.op = "WriteKeyToFile" /\ res.fault2 /\ res.before.exists) =>
          /\ res.err = "error reading file"
          /\ file = res.before
    /\ (/\ res.op = "WriteKeyToFile"
        /\ res.err \in {"error checking if keys are already present",
                        "error reading file"}) =>
          /\ res.fault1 \/ (res.fault2 /\ res.before.exists)
          /\ file = res.before

\* A first wallet written where no file was.
C21_Witness ==
    /\ res.op = "WriteKeyToFile" /\ res.clean /\ ~res.before.exists
    /\ res.err = "nil" /\ file.exists /\ res.alias = "a"

Loaders == {"GetCurrentPrivateKey", "GetCurrentPublicKey", "GetPrivateKeyByAlias",
            "GetPublicKeyByAlias", "SetActiveKey", "WriteKeyToFile", "PrintAllKeys"}

\* C22: an operation that loads the store returns the read error on a missing file
\* (WriteKeyToFile, for which that is no failure, aside) and the decode error on a
\* file that does not parse, two different errors, and leaves the unparsable file as
\* it was.
C22_MissingAndMalformedDiffer ==
    (res.op \in Loaders /\ res.clean) =>
        /\ (res.before.exists /\ ~Parses(res.before)) =>
              res.err = "error unmarshaling JSON" /\ file = res.before
        /\ (~res.before.exists /\ res.op # "WriteKeyToFile") =>
              res.err = "error reading file" /\ file = res.before

\* SetActiveKey met a file that does not parse.
C22_Witness ==
    /\ res.op = "SetActiveKey" /\ res.clean
    /\ res.before.exists /\ ~Parses(res.before) /\ res.before.bytes # <<>>
    /\ res.err = "error unmarshaling JSON"

\* C23: GetPrivateKeyByAlias and GetPublicKeyByAlias return the key text and the
\* address of the wallet stored under the alias, active or not, as WriteKeyToFile
\* stored them, and the not-found error when the store has no such alias; the file
\* stays as it was.
C23_LookupByAlias ==
    (res.op \in {"GetPrivateKeyByAlias", "GetPublicKeyByAlias"}) =>
        /\ file = res.before
        /\ (res.clean /\ Parses(res.before)) =>
              IF res.alias \in StoredAliases(res.before)
              THEN /\ res.err = "nil"
                   /\ LET w == Stored(res.before).Wallets[res.alias]
                      IN  /\ res.val = IF res.op = "GetPrivateKeyByAlias"
                                        THEN w.PrivateKey ELSE <<w.PublicKey>>
                          /\ \E n \in NewWallets :
                                /\ w.PrivateKey = getSolCLIComptKey(n.key)
                                /\ w.PublicKey = n.address
              ELSE res.err = "no wallet found for alias"

\* A wallet that is not the active one was looked up by its alias.
C23_Witness ==
    /\ res.op = "GetPublicKeyByAlias" /\ res.clean /\ Parses(res.before)
    /\ res.alias \in StoredAliases(res.before)
    /\ res.alias # Stored(res.before).ActiveAlias
    /\ res.err = "nil"
    /\ res.val # <<Stored(res.before).Wallets[Stored(res.before).ActiveAlias].PublicKey>>

\* How many times the call was issued for the signature (0 for the call that has
\* none).
Issued(name, sig) == {c \in BagToSet(hist) : c.call = name /\ c.sig = sig}
Times(name, sig) == BagCardinality([c \in Issued(name, sig) |-> CopiesIn(c, hist)])

FetchFailures == {"get transaction", "transaction from decoder"}

\* C24: nothing is retried. Once the address has parsed GetSignaturesForAddress has
\* been issued exactly once (and not at all when it did not parse), GetTransaction
\* and GetBlockTime are issued at most once per signature, and a task that holds
\* an error is past its calls.
C24_NoRetry ==
    /\ Times("GetSignaturesForAddress", 0) =
          IF pc = "start" \/ (Returned /\ ret.err = Err("invalid public key", 0))
          THEN 0 ELSE 1
    /\ \A i \in Sigs :
          /\ Times("GetTransaction", i) <= 1
          /\ Times("GetBlockTime", i) <= 1
          /\ task[i].err # Nil => task[i].pc \in {"release", "exit", "done"}
    /\ (Returned /\ ret.err = Err("get signatures for address", 0)) =>
          \A i \in Sigs : Times("GetTransaction", i) = 0

\* A call returned after a GetTransaction failed, which was issued once.
C24_Witness ==
    /\ Returned
    /\ \E i \in Sigs : /\ task[i].err = Err("get transaction", i)
                       /\ task[i].pc = "done"
                       /\ Times("GetTransaction", i) = 1
                       /\ Times("GetBlockTime", i) = 0

\* C25: GetBlockTime is issued for a signature only after its GetTransaction has
\* returned a transaction, and with that transaction's slot; a signature whose
\* GetTransaction failed has no GetBlockTime; decodeSystemTransfer has run (the
\* task holds events, or is appending them) only with both calls made and no
\* failure of either.
C25_BlockTimeAfterTransaction ==
    \A i \in Sigs :
       /\ \A c \in Issued("GetBlockTime", i) :
             /\ c.arg = SlotOf(i) /\ c.arg = task[i].slot
             /\ Times("GetTransaction", i) = 1
             /\ task[i].pc \notin {"idle", "spawned", "inGetTransaction"}
             /\ task[i].err.what \notin FetchFailures
       /\ task[i].err.what \in FetchFailures => Times("GetBlockTime", i) = 0
       /\ (task[i].txList # <<>> \/ task[i].pc \in {"lock", "append", "unlock"}) =>
             /\ Times("GetTransaction", i) = 1 /\ Times("GetBlockTime", i) = 1
             /\ task[i].err = Nil
       /\ task[i].err.what = "get block time" => task[i].txList = <<>>

\* One signature's events are decoded after both calls while another's
\* GetTransaction failed and no block time was asked for it.
C25_Witness ==
    \E i, j \in Sigs :
       /\ task[i].txList # <<>> /\ Times("GetBlockTime", i) = 1
       /\ task[j].err = Err("get transaction", j) /\ Times("GetBlockTime", j) = 0

-----------------------------------------------------------------------------
(* Properties of the key getters on stored key texts.                       *)

\* The bytes the active wallet's key text decodes to, for a file that parses and
\* keeps its active wallet.
ActiveKeyBytes(f) ==
    LET d == readWalletData(f, FALSE).data
    IN  getPrivateKeyFromSolCLICompStr(d.Wallets[d.ActiveAlias].PrivateKey)
HasActiveWallet(f) ==
    LET r == readWalletData(f, FALSE)
    IN  r.err = "nil" /\ r.data.ActiveAlias \in DOMAIN r.data.Wallets

\* C26 (as claimed): when the key text of the active wallet decodes to fewer bytes
\* than a private key has, GetCurrentPrivateKey returns an error.
C26_UndersizedKeyRejected ==
    (/\ res.op = "GetCurrentPrivateKey" /\ res.clean
     /\ HasActiveWallet(res.before)
     /\ ActiveKeyBytes(res.before).err = "nil"
     /\ Len(ActiveKeyBytes(res.before).key) < KeyLen) => res.err # "nil"

-----------------------------------------------------------------------------
(* Properties of the stored balances and of the balance lookup.            *)

\* The wallets a file holds: none when there is no file.
WalletsOf(f) == IF f.exists THEN Stored(f).Wallets ELSE NoWallets
Readable(f) == ~f.exists \/ Parses(f)

\* C27 (as claimed): whatever the operation of the key store or of the facade and
\* whatever its outcome, every wallet the store held before it is still stored after
\* it with the balance it had, and the only wallet an operation adds is the one
\* WriteKeyToFile was given, with balance zero.
C27_BalanceWriteOnce ==
    (res.op # "none" /\ Readable(res.before)) =>
        LET old == WalletsOf(res.before)
        IN  /\ Readable(file)
            /\ \A a \in DOMAIN old :
                  a \in DOMAIN WalletsOf(file) /\ WalletsOf(file)[a].Balance = old[a].Balance
            /\ \A a \in DOMAIN WalletsOf(file) \ DOMAIN old :
                  /\ res.op = "WriteKeyToFile" /\ a = res.alias
                  /\ WalletsOf(file)[a].Balance = 0

Looked == res.op = "fetchSolBalance"

\* The address of the key text t as the program wrote it.
AddressOfText(t) == PublicKeyOf(getPrivateKeyFromSolCLICompStr(t).key)

\* C28: the address asked for is the one of the wallet in memory when there is
\* one, whatever the file and the alias; else, with an alias, never that of another
\* wallet than the alias names, and an alias the store does not hold is an error;
\* else that of the active wallet. "failed to fetch public key" comes without a
\* call of GetBalance, "failed to fetch balance" when GetBalance failed, and a
\* success is the lamports divided by 10^9.
C28_BalanceLookup ==
    Looked =>
        LET out == res.val.out
            answer == res.val.answer
            old == WalletsOf(res.before)
        IN  /\ res.wallet # NoWallet => out.asked = res.wallet.address
            /\ (res.wallet = NoWallet /\ res.alias # "") =>
                  /\ out.asked # NotAsked =>
                        /\ Parses(res.before) /\ res.alias \in DOMAIN old
                        /\ out.asked = AddressOfText(old[res.alias].PrivateKey)
                  /\ (Readable(res.before) /\ res.alias \notin DOMAIN old) =>
                        res.err = "failed to fetch public key"
            /\ (res.wallet = NoWallet /\ res.alias = "") =>
                  IF res.clean /\ HasActiveWallet(res.before)
                  THEN out.asked = AddressOfText(
                           old[Stored(res.before).ActiveAlias].PrivateKey)
                  ELSE res.err = "failed to fetch public key"
            /\ res.err \in {"nil", "failed to fetch public key", "failed to fetch balance"}
            /\ res.err = "failed to fetch public key" <=> out.asked = NotAsked
            /\ res.err = "failed to fetch balance" <=> (out.asked # NotAsked /\ ~answer.ok)
            /\ res.err = "nil" =>
                  /\ answer.ok
                  /\ out.sol * LamportsInOneSol + out.nano = answer.value
                  /\ out.nano \in 0..(LamportsInOneSol - 1)

\* With a wallet in memory and an alias the store does not hold, the balance of
\* the wallet in memory is returned: 1.5 SOL.
C28_Witness ==
    /\ Looked /\ res.err = "nil"
    /\ res.wallet # NoWallet /\ res.alias = "b"
    /\ Parses(res.before) /\ "b" \notin StoredAliases(res.before)
    /\ Stored(res.before).ActiveAlias = "a"
    /\ res.wallet.address # AddressOfText(Stored(res.before).Wallets["a"].PrivateKey)
    /\ res.val.out.asked = res.wallet.address
    /\ res.val.out.sol = 1 /\ res.val.out.nano = 500000000

\* The wallet WriteKeyToFile stored under the active alias, with its key text as
\* the program writes it.
ActiveIsWritten(f) ==
    /\ HasActiveWallet(f)
    /\ \E w \in NewWallets :
          Stored(f).Wallets[Stored(f).ActiveAlias].PrivateKey = getSolCLIComptKey(w.key)

\* C30 (as claimed): for the active wallet, as WriteKeyToFile stored it,
\* GetPrivateKeyByAlias with its alias returns what GetCurrentPrivateKey returns,
\* and the balance lookup with that alias asks for the wallet's address and
\* succeeds when the lookup without alias does.
C30_AliasAndActiveAgree ==
    /\ (/\ res.op = "GetPrivateKeyByAlias" /\ res.clean
        /\ ActiveIsWritten(res.before)
        /\ res.alias = Stored(res.before).ActiveAlias) =>
          /\ res.err = "nil"
          /\ res.val = GetCurrentPrivateKey(res.before, FALSE).val
    /\ (/\ Looked /\ res.clean /\ res.wallet = NoWallet /\ res.val.answer.ok
        /\ ActiveIsWritten(res.before)
        /\ res.alias = Stored(res.before).ActiveAlias /\ res.alias # "") =>
          /\ res.err = "nil"
          /\ res.val.out = fetchSolBalance(res.before, FALSE, NoWallet, "",
                                            res.val.answer)

-----------------------------------------------------------------------------
(* Properties of the transactions command.                                 *)

Ran == pc = "ran"
\* How many events of the list l go from, to, at that time, sent or received.
CountLike(l, from, to, timestamp, isSender) ==
    Cardinality({i \in 1..Len(l) :
                    /\ l[i].From = from /\ l[i].To = to /\ l[i].Timestamp = timestamp
                    /\ l[i].IsSender = isSender})
CountBlocks(l, b) ==
    Cardinality({i \in 1..Len(l) :
                    /\ l[i].From = b.From /\ l[i].To = b.To
                    /\ l[i].Timestamp = b.Timestamp /\ l[i].Action = b.Action})

\* C29: the blocks the command prints are in non-increasing order of timestamp
\* whatever the order of the history; when the command succeeds they are the
\* events of the history, each as often as it is there; an empty history prints
\* the one line "No transactions to display." and no block; a command that fails
\* prints nothing.
C29_NewestFirst ==
    Ran =>
        LET blocks == ret.txs.blocks
        IN  /\ \A i, j \in 1..Len(blocks) :
                  i < j => blocks[i].Timestamp >= blocks[j].Timestamp
            /\ ret.err = "nil" =>
                  /\ Len(blocks) = Len(transactions)
                  /\ \A i \in 1..Len(blocks) :
                        CountBlocks(blocks, blocks[i]) =
                            CountLike(transactions, blocks[i].From, blocks[i].To,
                                      blocks[i].Timestamp, blocks[i].Action = "Sent")
                  /\ ret.txs.note = (IF transactions = <<>> THEN NothingToDisplay ELSE "")
            /\ ret.err # "nil" => ret.txs = Printed("", <<>>)

\* A history returned oldest first, with the two events of equal time in between,
\* is printed newest first; 1.5 SOL at 5.00 are 7.50 EUR.
C29_Witness ==
    /\ Ran /\ ret.err = "nil"
    /\ transactions = <<EventPool[1], EventPool[2], EventPool[4]>>
    /\ Len(ret.txs.blocks) = 3
    /\ ret.txs.blocks[1].Timestamp = 1030
    /\ ret.txs.blocks[2].Timestamp = 1020
    /\ ret.txs.blocks[3] = [Action |-> "Sent", From |-> "ADDR1", To |-> "ADDR2",
                            Amount |-> <<"7", ".", "5", "0">>, Timestamp |-> 1010]

-----------------------------------------------------------------------------
(* Properties of fetchTransactions: its return and its termination.        *)

\* C31 (as claimed): once fetchTransactions has returned, on any path, none of
\* its goroutines is in flight, no slot is held, and no remote call was issued
\* after the return.
C31_NoTaskAfterReturn ==
    Returned =>
        /\ InFlight = {}
        /\ sem.cur = 0
        /\ \A c \in BagToSet(hist) : ~c.post

\* C32 (as claimed): every call of fetchTransactions eventually returns.
C32_EventuallyReturns == <>Returned

\* What holds instead: the call returns unless a goroutine panicked.
EventuallyReturnsOrCrashes == <>(Returned \/ ~Running)

-----------------------------------------------------------------------------
(* Properties of the key store: what a call leaves of the store.           *)

Called == res.op # "none"
Mutations == {"WriteKeyToFile", "SetActiveKey"}

\* C33 (as claimed): whatever the operation and its outcome, every wallet the
\* store held before is still stored afterwards, with the same record; a
\* successful WriteKeyToFile adds the wallet of its alias and nothing else, and
\* nothing else adds a wallet.
C33_WalletsOnlyGrow ==
    (Called /\ Readable(res.before)) =>
        LET old == WalletsOf(res.before)
        IN  /\ \A a \in DOMAIN old :
                  a \in DOMAIN WalletsOf(file) /\ WalletsOf(file)[a] = old[a]
            /\ DOMAIN WalletsOf(file) =
                  IF res.op = "WriteKeyToFile" /\ res.err = "nil"
                  THEN DOMAIN old \cup {res.alias}
                  ELSE DOMAIN old

ReadOps == {"GetCurrentPrivateKey", "GetCurrentPublicKey", "GetPrivateKeyByAlias",
            "GetPublicKeyByAlias", "IsKeyFilePresent", "PrintAllKeys"}

\* What a reading operation that found the wallet w returns of it.
ReturnsOf(w) ==
    CASE res.op = "GetCurrentPublicKey" -> res.val = <<w.PublicKey>>
      [] res.op = "GetPublicKeyByAlias" -> res.val = <<w.PublicKey>>
      [] res.op = "GetPrivateKeyByAlias" -> res.val = w.PrivateKey
      [] res.op = "GetCurrentPrivateKey" ->
            \E n \in NewWallets : /\ getSolCLIComptKey(n.key) = w.PrivateKey
                                  /\ res.val = base58Encode(n.key)

\* C34: a reading operation leaves the file as it found it, whether it succeeds
\* or fails, and what it returns is what the file holds at the time of the call:
\* the error of a missing or unparsable file, or the wallet the file stores now,
\* whatever earlier calls have read or written.
C34_ReadsAreFresh ==
    res.op \in ReadOps =>
        /\ file = res.before
        /\ (res.clean /\ res.op = "IsKeyFilePresent") =>
              res.err = "nil" /\ res.val = <<IF file.exists THEN "true" ELSE "false">>
        /\ (res.clean /\ res.op # "IsKeyFilePresent" /\ ~Parses(file)) =>
              res.err = IF file.exists THEN "error unmarshaling JSON"
                        ELSE "error reading file"
        /\ (res.clean /\ Parses(file)) =>
              LET d == Stored(file)
                  a == IF res.op \in {"GetPrivateKeyByAlias", "GetPublicKeyByAlias"}
                       THEN res.alias ELSE d.ActiveAlias
              IN  CASE res.op = "IsKeyFilePresent" -> TRUE
                    [] res.op = "PrintAllKeys" ->
                          res.err = "nil" =>
                             /\ DOMAIN res.val[2] = DOMAIN d.Wallets
                             /\ \A b \in DOMAIN d.Wallets :
                                   res.val[2][b] = d.Wallets[b].PublicKey
                    [] OTHER ->
                          IF a \in DOMAIN d.Wallets
                          THEN res.err = "nil" /\ ReturnsOf(d.Wallets[a])
                          ELSE res.err # "nil"

\* GetCurrentPublicKey returns the address of the wallet written last, on a store
\* that holds an older wallet with another address.
C34_Witness ==
    /\ res.op = "GetCurrentPublicKey" /\ res.clean /\ res.err = "nil"
    /\ res.val = <<"PUBKEYB">>
    /\ \E a \in StoredAliases(file) : Stored(file).Wallets[a].PublicKey = "PUBKEYA"

\* C35 (as claimed): on a file that parses, the wallets mapping absent or null
\* included, WriteKeyToFile with an alias the store does not hold returns nil or
\* an error; it does not panic.
C35_NoAbortOnWrite ==
    (/\ res.op = "WriteKeyToFile" /\ Parses(res.before)
     /\ res.alias \notin StoredAliases(res.before)) =>
        res.err # "panic: assignment to entry in nil map"

\* C36 (as claimed): every entry of the listing resolves back to its wallet. After
\* a successful address --all, every stored alias, one with a space included, has
\* a line that names it with its wallet's public key; after a successful wallet
\* selection, the wallet whose entry was picked is the active one and the address
\* shown is its public key.
C36_EntriesResolve ==
    /\ (res.op = "displayAddress" /\ res.err = "nil") =>
           \A a \in StoredAliases(res.before) :
               \E i \in DOMAIN res.val :
                   /\ res.val[i].alias = a
                   /\ res.val[i].address = WalletsOf(res.before)[a].PublicKey
    /\ (res.op = "selectExistingWallet" /\ res.err = "nil") =>
           /\ Readable(file) /\ Stored(file).ActiveAlias = res.alias
           /\ res.val = WalletsOf(res.before)[res.alias].PublicKey

\* What the three getters return on f, read without an I/O failure.
Reads(f, alias) ==
    <<GetCurrentPrivateKey(f, FALSE), GetCurrentPublicKey(f, FALSE),
      GetPublicKeyByAlias(f, FALSE, alias)>>
\* f after SetActiveKey(other) and then SetActiveKey(alias), both written whole.
ThereAndBack(f, other, alias) ==
    SetActiveKey(SetActiveKey(f, FALSE, other, MaxBytes).file, FALSE, alias, MaxBytes).file
Written == res.op = "WriteKeyToFile" /\ res.err = "nil"

\* C37: right after a successful WriteKeyToFile(alias, k, pub), GetCurrentPrivateKey
\* returns k in base58, GetCurrentPublicKey and GetPublicKeyByAlias(alias) return
\* pub, and the three return the same after SetActiveKey to any other stored
\* wallet and back to alias.
C37_StoreRoundTrip ==
    Written =>
        LET expected == <<[err |-> "nil", val |-> base58Encode(res.wallet.key)],
                          [err |-> "nil", val |-> res.wallet.address],
                          [err |-> "nil", val |-> res.wallet.address]>>
        IN  /\ Reads(file, res.alias) = expected
            /\ \A other \in StoredAliases(file) \ {res.alias} :
                   Reads(ThereAndBack(file, other, res.alias), res.alias) = expected

\* A second wallet was written, with a key whose bytes are the largest and the
\* smallest, next to a first one to switch to and back from.
C37_Witness ==
    /\ Written /\ res.wallet.key = KeyOf(254)
    /\ Cardinality(StoredAliases(file)) >= 2
    /\ GetCurrentPrivateKey(file, FALSE).val = base58Encode(KeyOf(254))
    /\ \E other \in StoredAliases(file) \ {res.alias} :
           /\ Stored(SetActiveKey(file, FALSE, other, MaxBytes).file).ActiveAlias = other
           /\ Stored(ThereAndBack(file, other, res.alias)).ActiveAlias = res.alias

\* The amount typed is a number above zero, and the rate is not zero.
Sendable ==
    /\ NewFromString(res.eur).err = "nil" /\ NewFromString(res.eur).num > 0
    /\ res.answer.rate # 0
\* The value of the four limbs, for an amount below 2^31.
Small(amount) == amount[3] = 0 /\ amount[4] = 0 /\ amount[2] < 32768
ValueOf(amount) == amount[2] * LimbBase + amount[1]
\* v is e * 10^9 / r cut to an integer: r * v <= e * 10^9 < r * v + r, with v taken
\* apart at its fifth digit to keep the products small.
IsQuotient(v, e, r) ==
    LET rest == e * 10000 - r * (v \div 100000)
        low == r * (v % 100000)
    IN  /\ 0 <= rest /\ rest <= 1000
        /\ low <= rest * 100000 /\ rest * 100000 < low + r

\* C38 (as claimed): the amount of a transaction that SendFunds builds is above
\* zero and is the EUR amount over the rate, times 10^9, cut to an integer; and
\* when the amount typed is negative, zero or no number, or the rate is zero,
\* SendFunds ends with a Validation error and builds and submits nothing.
C38_AmountIsValidated ==
    res.op = "SendFunds" =>
        /\ res.val.built =>
               /\ Sendable /\ Small(res.val.amount) /\ ValueOf(res.val.amount) > 0
               /\ IsQuotient(ValueOf(res.val.amount), NewFromString(res.eur).num,
                             res.answer.rate)
        /\ (res.answer.err = "nil" /\ ~Sendable) =>
               \/ res.err = "Validation" /\ ~res.val.built /\ ~res.val.submitted
               \/ res.err \in {"ws connect failed", "failed to get current private key",
                                "panic: invalid base58 public key"}

====
